---- MODULE Spec2Model ----
(***************************************************************************)
(* Model of the video transcriber:                                         *)
(*   transcribe_video            (src/src/video_transcriber_app/transcriber.py:86-183)  *)
(*   transcribe_video_enhanced   (src/src/video_transcriber_app/transcriber.py:33-84)   *)
(*   format_timestamp            (src/src/video_transcriber_app/transcriber.py:186-191) *)
(*   Phi3Brain.generate_metadata (src/phi3_brain.py:79-285)                *)
(*   the front-ends              (cli_app.py, web/flask_app.py,            *)
(*                                web/app_working.py, web/streamlit_app.py) *)
(* Each job is one call of a core operation, made directly or by a         *)
(* front-end.  The speech engine, the video library, the language model    *)
(* and the progress callback are external: every call to them either       *)
(* returns or raises an exception of some kind.                            *)
(***************************************************************************)
EXTENDS Integers, Sequences, FiniteSets, TLC

\* ------------------------------------------------------------------ bounds

\* Size of the pool of names tempfile.NamedTemporaryFile draws from.
MaxTemp == 2

\* The seconds the clock of the Flask service counts.
MaxClock == 1

\* transcriber.py:191: milliseconds * 1000
MillisPerSecond == 1000

\* Fixed-point resolution of a seconds value: ten ticks per millisecond.
TicksPerSecond == 10 * MillisPerSecond

JobIds == {1, 2}

TempNames == 1..MaxTemp

\* ------------------------------------------------------------ input values

\* Optional[str]: None, or a string (a sequence of characters).
None == [some |-> FALSE, val |-> <<>>]

Some(s) == [some |-> TRUE, val |-> s]

LanguageHints ==
    { None, Some(<<>>),
      Some(<<"a", "u", "t", "o">>), Some(<<"A", "U", "T", "O">>),
      Some(<<"A", "u", "t", "o">>),
      Some(<<"p", "t">>), Some(<<"e", "n">>) }

\* What is found at video_path: nothing, a container without an audio
\* stream, or a container with one.
VideoFiles == {"missing", "noaudio", "ok"}

WHISPER_MODELS == {"tiny", "base", "small", "medium", "large", "large-v2"}

\* Model identifiers a caller passes: a recognized one and an unrecognized one.
ModelNames == {"base", "bogus"}

\* Exception classes as the except clauses of transcribe_video tell them
\* apart: FileNotFoundError, ValueError, any other Exception subclass, and
\* a BaseException that is no Exception (KeyboardInterrupt, SystemExit).
ExcKinds == {"FileNotFoundError", "ValueError", "Exception", "BaseException"}

IsException(k) == k \in {"FileNotFoundError", "ValueError", "Exception", "RuntimeError"}

\* One segment of the engine's result; start and end in ticks.
Segment(s, e, t) == [start |-> s, end |-> e, text |-> t]

SegmentLists ==
    { <<>>,
      << Segment(0, 15000, <<" ", "a", " ">>) >> }

\* --------------------------------------------------------- pure functions

\* str.lower() on the characters that occur in the hints.
LowerChar(c) ==
    CASE c = "A" -> "a"
      [] c = "U" -> "u"
      [] c = "T" -> "t"
      [] c = "O" -> "o"
      [] OTHER -> c

lower(s) == [i \in 1..Len(s) |-> LowerChar(s[i])]

\* Python truthiness of an Optional[str]: None and "" are falsy.
Truthy(l) == l.some /\ l.val # <<>>

\* The comparison with the sentinel made without lower().
PassLanguageNoLower(l) == Truthy(l) /\ l.val # <<"a", "u", "t", "o">>

\* transcriber.py:147: language and language.lower() != 'auto'
PassLanguage(l) == Truthy(l) /\ lower(l.val) # <<"a", "u", "t", "o">>

\* The whitespace str.strip() and str.split() recognize, as far as it occurs.
IsSpace(c) == c \in {" ", "\n", "\t"}

RECURSIVE lstrip(_)
lstrip(s) == IF s # <<>> /\ IsSpace(Head(s)) THEN lstrip(Tail(s)) ELSE s

RECURSIVE rstrip(_)
rstrip(s) ==
    IF s # <<>> /\ IsSpace(s[Len(s)]) THEN rstrip(SubSeq(s, 1, Len(s) - 1)) ELSE s

strip(s) == rstrip(lstrip(s))

Digits == <<"0", "1", "2", "3", "4", "5", "6", "7", "8", "9">>

\* str(n) of a natural number.
RECURSIVE Decimal(_)
Decimal(n) ==
    IF n < 10 THEN <<Digits[n + 1]>>
    ELSE Decimal(n \div 10) \o <<Digits[(n % 10) + 1]>>

\* The format specification :0w of an f-string on an int: zeros on the left
\* up to width w, nothing cut off.
ZeroPad(n, w) ==
    LET d == Decimal(n)
    IN  IF Len(d) >= w THEN d ELSE [i \in 1..(w - Len(d)) |-> "0"] \o d

\* The milliseconds rounded half up instead of cut off.
MillisRoundedUp(frac) ==
    (2 * frac * MillisPerSecond + TicksPerSecond) \div (2 * TicksPerSecond)

\* transcriber.py:191: int(milliseconds * 1000) cuts the fraction off.
Millis(frac) == (frac * MillisPerSecond) \div TicksPerSecond

\* The decomposition begun at the wrong end: the seconds within the minute
\* are taken first and the hours and minutes from what is left of them.
TimestampFieldsSecondsFirst(seconds) ==
    LET remainder == seconds % (60 * TicksPerSecond)
    IN  [hh |-> 0, mm |-> 0, ss |-> remainder \div TicksPerSecond,
         mmm |-> Millis(remainder % TicksPerSecond)]

\* transcriber.py:188-190, on a seconds value given in ticks (an exact
\* multiple of 1/TicksPerSecond): divmod by 3600, by 60 and by 1.
TimestampFields(seconds) ==
    LET hours      == seconds \div (3600 * TicksPerSecond)
        remainder1 == seconds % (3600 * TicksPerSecond)
        minutes    == remainder1 \div (60 * TicksPerSecond)
        remainder2 == remainder1 % (60 * TicksPerSecond)
        secs       == remainder2 \div TicksPerSecond
        frac       == remainder2 % TicksPerSecond
    IN  [hh |-> hours, mm |-> minutes, ss |-> secs, mmm |-> Millis(frac)]

\* transcriber.py:191: the f-string HH:MM:SS,mmm.
format_timestamp(seconds) ==
    LET f == TimestampFields(seconds)
    IN  ZeroPad(f.hh, 2) \o <<":">> \o ZeroPad(f.mm, 2) \o <<":">>
          \o ZeroPad(f.ss, 2) \o <<",">> \o ZeroPad(f.mmm, 3)

\* An entry numbered from 0 like the position of its segment.
SrtEntryZeroBased(i, segment) ==
    Decimal(i) \o <<"\n">>
      \o format_timestamp(segment.start) \o <<" ", "-", "-", ">", " ">>
      \o format_timestamp(segment.end) \o <<"\n">>
      \o strip(segment.text) \o <<"\n", "\n">>

\* transcriber.py:158-163: the three f-strings appended for the segment at
\* position i of enumerate().
SrtEntry(i, segment) ==
    Decimal(i + 1) \o <<"\n">>
      \o format_timestamp(segment.start) \o <<" ", "-", "-", ">", " ">>
      \o format_timestamp(segment.end) \o <<"\n">>
      \o strip(segment.text) \o <<"\n", "\n">>

\* transcriber.py:156-163: srt_content after the first n rounds of the loop.
RECURSIVE FormatLoop(_, _)
FormatLoop(segments, n) ==
    IF n = 0 THEN <<>>
    ELSE FormatLoop(segments, n - 1) \o SrtEntry(n - 1, segments[n])

FormatSRT(segments) == FormatLoop(segments, Len(segments))

\* ------------------------------------------------- the analysis (phi3_brain.py)

\* len(transcription.split()): the maximal runs of characters that are no
\* whitespace.
WordCount(text) ==
    Cardinality({i \in DOMAIN text :
                    ~IsSpace(text[i]) /\ (i = 1 \/ IsSpace(text[i - 1]))})

\* What the language model does when asked for a completion
\* (phi3_brain.py:84-113): it raises, or it answers a text.  A text is known
\* by its shape: "json" holds an object with the keys the prompt asked for,
\* "json_other" an object with other keys, "broken" braces around something
\* that is no JSON, "json_twice" two objects with prose between them, "plain"
\* prose without braces, "empty" nothing.
LMTexts == {"json", "json_other", "broken", "json_twice", "plain", "empty"}

LMReplies == LMTexts \cup {"Exception", "BaseException"}

\* The five prompts of generate_metadata, in the order the dict display
\* evaluates them (phi3_brain.py:278-282).
AnalysisCalls == 1..5

\* _generate_response with no handler around the model call.
CaughtNothing(k) == FALSE

\* phi3_brain.py:117: except Exception
Caught(k) == IsException(k)

\* phi3_brain.py:79-119: the text of the answer, or "error" for the text
\* "Error: ..." built from a caught exception.
GenerateResponse(reply) == IF reply \in LMTexts THEN reply ELSE "error"

\* phi3_brain.py:199-200: the pieces between commas longer than two
\* characters; only an empty answer has none.
Topics(response) == IF response = "empty" THEN <<>> ELSE <<response>>

\* phi3_brain.py:250-258: the lines that look like a question; prose is
\* the one shape that has such lines.
Questions(response) == IF response = "plain" THEN <<response>> ELSE <<>>

\* re.search(r'\{.*\}', response, re.DOTALL): the match, being greedy, runs
\* from the first opening brace to the last closing brace.
JsonMatch(response) == response \in {"json", "json_other", "broken", "json_twice"}

\* json.loads taking whatever the pattern matched for JSON.
ParsesWhateverMatched(response) == JsonMatch(response)

\* json.loads(json_match.group()) returns: the match is one object.  The
\* match of a "json_twice" answer spans both objects and the prose between.
Parses(response) == response \in {"json", "json_other"}

\* phi3_brain.py:228-234
SentimentDefault(response) ==
    [sentiment |-> "neutral", tone |-> "unknown", emotional_moments |-> <<>>,
     confidence |-> "low", raw_analysis |-> response]

\* phi3_brain.py:151-157
QualityDefault(response) ==
    [quality_score |-> 7,
     issues |-> <<"Analysis could not be parsed as JSON">>,
     improvements |-> <<"Manual review recommended">>,
     confidence_level |-> "medium", raw_analysis |-> response]

\* The object inside a "json" or "json_other" answer to the sentiment prompt.
SentimentObject(response) ==
    IF response = "json"
      THEN [sentiment |-> "positive", tone |-> "casual",
            emotional_moments |-> <<>>, confidence |-> "high"]
      ELSE [note |-> "other"]

\* The object inside a "json" or "json_other" answer to the quality prompt.
QualityObject(response) ==
    IF response = "json"
      THEN [quality_score |-> 9, issues |-> <<>>, improvements |-> <<>>,
            confidence_level |-> "high"]
      ELSE [note |-> "other"]

\* phi3_brain.py:219-234
analyze_sentiment(response) ==
    IF JsonMatch(response) /\ Parses(response)
      THEN SentimentObject(response)
      ELSE SentimentDefault(response)

\* phi3_brain.py:140-157
analyze_transcription_quality(response) ==
    IF JsonMatch(response) /\ Parses(response)
      THEN QualityObject(response)
      ELSE QualityDefault(response)

\* phi3_brain.py:275-285: the record generate_metadata returns when the
\* five prompts got the replies lm; the duration is word_count / 150.
Metadata(transcription, lm) ==
    [summary |-> GenerateResponse(lm[1]),
     key_topics |-> Topics(GenerateResponse(lm[2])),
     sentiment_analysis |-> analyze_sentiment(GenerateResponse(lm[3])),
     quality_assessment |-> analyze_transcription_quality(GenerateResponse(lm[4])),
     suggested_questions |-> Questions(GenerateResponse(lm[5])),
     word_count |-> WordCount(transcription),
     estimated_duration_minutes |-> [num |-> WordCount(transcription), den |-> 150]]

\* The prompts whose reply is an exception no handler of phi3_brain.py takes.
Uncaught(lm) == {i \in AnalysisCalls : lm[i] \notin LMTexts /\ ~Caught(lm[i])}

FirstUncaught(lm) == CHOOSE i \in Uncaught(lm) : \A k \in Uncaught(lm) : i <= k

\* ------------------------------------------------------------------ state

VARIABLES
    inp,              \* per job: the arguments of the call and what it will meet
    pc,               \* per job: the statement about to run
    exc,              \* per job: the exception in flight, or "none"
    temp_audio_file,  \* per job: the local of that name; 0 is None
    fs,               \* the temporary files that exist
    video,            \* per job: the VideoFileClip: "none", "open", "closed"
    result,           \* per job: the segments model.transcribe returned
    srt_content,      \* per job: the subtitle text built so far
    enh_result,       \* per job: the result dict of transcribe_video_enhanced
    outcome,          \* per job: how the call ended
    trace,            \* per job: the external calls made, in order
    ui,               \* per job: what the front-end has shown the user
    now,              \* the Flask service: int(time.time())
    request,          \* per upload request: what the client sends
    job_id,           \* per upload request: the job id it was given, or NoJob
    upload_folder,    \* the files in UPLOAD_FOLDER, by name
    results_folder,   \* the .srt files in RESULTS_FOLDER, by job id
    transcription_progress,  \* the global dict of that name
    transcription_results,   \* the global dict of that name
    poll,             \* the /progress request in hand
    last_response     \* the last /progress response sent

\* The state of the Flask service but for the progress dict.
web == <<now, request, job_id, upload_folder, results_folder,
         transcription_results, poll, last_response>>

vars == <<inp, pc, exc, temp_audio_file, fs, video, result, srt_content,
          enh_result, outcome, trace, ui, web, transcription_progress>>

\* An event of the trace: a call to an external collaborator and how it ended.
\* fn is the function whose statement made the call.
Ev(op, res) ==
    [fn |-> "transcribe_video", op |-> op, res |-> res, pct |-> 0, file |-> 0,
     withLang |-> FALSE, lang |-> <<>>, segs |-> <<>>]

EnhEv(op, res) == [Ev(op, res) EXCEPT !.fn = "transcribe_video_enhanced"]

\* The replies of a language model that answers every prompt with prose.
PlainLM == [i \in AnalysisCalls |-> "plain"]

\* The language models a run of the whole pipeline meets: one that answers
\* in prose, one that answers as asked but fails on the sentiment prompt,
\* and one interrupted during the second prompt.
LMRuns ==
    { PlainLM,
      [i \in AnalysisCalls |-> IF i = 3 THEN "Exception" ELSE "json"],
      [i \in AnalysisCalls |-> IF i = 2 THEN "BaseException" ELSE "json"] }

OffInput ==
    [op |-> "off", fe |-> "none", selected |-> <<>>, video |-> "missing",
     model_name |-> "base", language |-> None, enable_phi3 |-> FALSE,
     cb |-> FALSE, lm |-> PlainLM]

\* The calls a caller can make: transcribe_video, or
\* transcribe_video_enhanced with analysis off or on.  lm is the language
\* model the analysis will meet.
Calls ==
    { [op |-> o, fe |-> "none", selected |-> <<>>, video |-> v,
       model_name |-> m, language |-> l, enable_phi3 |-> p, cb |-> c,
       lm |-> r] :
         o \in {"tv", "enh"}, v \in VideoFiles, m \in ModelNames,
         l \in LanguageHints, p \in BOOLEAN, c \in BOOLEAN, r \in LMRuns }

ValidCalls ==
    { c \in Calls : /\ c.op = "tv" => ~c.enable_phi3
                    /\ ~c.enable_phi3 => c.lm = PlainLM }

EntryPc(c) ==
    CASE c.fe # "none" -> "fe_entry"
      [] c.op = "upload" -> "upload"
      [] c.op = "tv"   -> "check_path"
      [] c.op = "enh"  -> "enh_entry"
      [] OTHER         -> "off"

\* Nothing shown yet.
NoUi == [form |-> "none", arg |-> "none", out |-> <<>>]

\* No job id: the request has not been accepted, or the call was not made
\* by the Flask service.
NoJob == <<>>

NoPoll == [at |-> "idle", job |-> NoJob, progress |-> <<>>]

\* No upload request.
NoRequest ==
    [has_file |-> FALSE, filename |-> <<>>, content |-> "missing",
     model |-> "none", language |-> <<>>]

\* flask_app.py:22-33: the service starts with both folders and both dicts
\* empty; requests are what its clients will send.
WebInitWith(requests) ==
    /\ now = 0
    /\ request = requests
    /\ job_id = [j \in JobIds |-> NoJob]
    /\ upload_folder = {}
    /\ results_folder = {}
    /\ transcription_progress = <<>>
    /\ transcription_results = <<>>
    /\ poll = NoPoll
    /\ last_response = <<>>

WebInit == WebInitWith([j \in JobIds |-> NoRequest])

CoreInit(calls) ==
    /\ inp = calls
    /\ pc = [j \in JobIds |-> EntryPc(calls[j])]
    /\ exc = [j \in JobIds |-> "none"]
    /\ temp_audio_file = [j \in JobIds |-> 0]
    /\ fs = {}
    /\ video = [j \in JobIds |-> "none"]
    /\ result = [j \in JobIds |-> <<>>]
    /\ srt_content = [j \in JobIds |-> <<>>]
    /\ enh_result = [j \in JobIds |-> <<>>]
    /\ outcome = [j \in JobIds |-> [status |-> "running", exc |-> "none"]]
    /\ trace = [j \in JobIds |-> <<>>]
    /\ ui = [j \in JobIds |-> NoUi]

InitWith(calls) == CoreInit(calls) /\ WebInit

\* One job.
Init == \E c \in ValidCalls : InitWith([j \in JobIds |-> IF j = 1 THEN c ELSE OffInput])

\* ------------------------------------------------------- transcribe_video

\* A with block that ends before the export-start milestone: the statements
\* from there on are not covered by it.
InWithShort(l) == l \in {"audio_check", "mktemp"}

\* The statements of the with block (transcriber.py:127-139).
InWith(l) == l \in {"audio_check", "mktemp", "cb20", "export", "cb30"}

\* A transcribe call that is made a second time when the first one fails.
RaiseWithRetry(j, k) ==
    IF pc[j] = "transcribe" /\ ~\E i \in DOMAIN trace[j] : trace[j][i].op = "transcribe"
      THEN /\ exc' = exc
           /\ pc' = pc
      ELSE /\ exc' = [exc EXCEPT ![j] = k]
           /\ pc' = [pc EXCEPT ![j] = IF InWith(pc[j]) THEN "close_video" ELSE "except"]

\* An exception of kind k raised by the statement at pc[j], inside the try
\* of transcribe_video: the with block releases the container first.
Raise(j, k) ==
    /\ exc' = [exc EXCEPT ![j] = k]
    /\ pc' = [pc EXCEPT ![j] = IF InWith(pc[j]) THEN "close_video" ELSE "except"]

Goto(j, l) == pc' = [pc EXCEPT ![j] = l]

Log(j, e) == trace' = [trace EXCEPT ![j] = Append(@, e)]

\* Path(video_path).exists(): a caller's path leads to a file or does not;
\* the Flask worker's path is UPLOAD_FOLDER / job_id (flask_app.py:124).
VideoPathExists(j) ==
    IF job_id[j] = NoJob THEN inp[j].video # "missing"
                         ELSE job_id[j] \in upload_folder

\* The call without its existence check of the path.
CheckPathSkipped(j) ==
    /\ pc[j] = "check_path"
    /\ pc' = [pc EXCEPT ![j] = "cb5"]
    /\ UNCHANGED <<inp, ui, web, transcription_progress, exc, temp_audio_file, fs, video, result, srt_content,
                   enh_result, outcome, trace>>

\* transcriber.py:110-112: raised before the try, so no handler and no
\* finally clause of transcribe_video runs.
CheckPath(j) ==
    /\ pc[j] = "check_path"
    /\ IF ~VideoPathExists(j)
         THEN /\ exc' = [exc EXCEPT ![j] = "FileNotFoundError"]
              /\ Goto(j, "tv_exit")
         ELSE /\ Goto(j, "cb5")
              /\ UNCHANGED exc
    /\ UNCHANGED <<inp, ui, web, transcription_progress, temp_audio_file, fs, video, result, srt_content,
                   enh_result, outcome, trace>>

TvMilestones == {"cb5", "cb10", "cb20", "cb30", "cb40", "cb90", "cb100"}

\* The milestones with the export-done percentage below export-start.
PctBackwards(l) ==
    CASE l = "cb5"   -> 5
      [] l = "cb10"  -> 10
      [] l = "cb20"  -> 20
      [] l = "cb30"  -> 15
      [] l = "cb40"  -> 40
      [] l = "cb90"  -> 90
      [] l = "cb100" -> 100

\* The milestones with the transcription-done percentage mistyped.
PctTypo(l) ==
    CASE l = "cb5"   -> 5
      [] l = "cb10"  -> 10
      [] l = "cb20"  -> 20
      [] l = "cb30"  -> 30
      [] l = "cb40"  -> 40
      [] l = "cb90"  -> 80
      [] l = "cb100" -> 100

\* The percentage each milestone reports (lines 118, 123, 135, 139, 143, 154, 166).
Pct(l) ==
    CASE l = "cb5"   -> 5
      [] l = "cb10"  -> 10
      [] l = "cb20"  -> 20
      [] l = "cb30"  -> 30
      [] l = "cb40"  -> 40
      [] l = "cb90"  -> 90
      [] l = "cb100" -> 100

\* The transcription-start milestone placed inside the with block, so that
\* the engine is called while the container is still open.
AfterInsideWith(l) ==
    CASE l = "cb5"   -> "load_model"
      [] l = "cb10"  -> "open_video"
      [] l = "cb20"  -> "export"
      [] l = "cb30"  -> "cb40"
      [] l = "cb40"  -> "transcribe"
      [] l = "cb90"  -> "format"
      [] l = "cb100" -> "finally"

\* The statement that follows each milestone.
After(l) ==
    CASE l = "cb5"   -> "load_model"
      [] l = "cb10"  -> "open_video"
      [] l = "cb20"  -> "export"
      [] l = "cb30"  -> "close_video"
      [] l = "cb40"  -> "transcribe"
      [] l = "cb90"  -> "format"
      [] l = "cb100" -> "finally"

\* What a call of the caller's callback can do.
CallbackOutcomes == {"ok"} \cup ExcKinds

\* The callback called without the test that one was supplied: calling
\* None raises TypeError.
ProgressCallbackUnguarded(j) ==
    /\ pc[j] \in TvMilestones
    /\ IF ~inp[j].cb
         THEN /\ Raise(j, "Exception")
              /\ UNCHANGED trace
         ELSE \E r \in CallbackOutcomes :
                /\ Log(j, [Ev("callback", r) EXCEPT !.pct = Pct(pc[j])])
                /\ IF r = "ok"
                     THEN Goto(j, After(pc[j])) /\ UNCHANGED exc
                     ELSE Raise(j, r)
    /\ UNCHANGED <<inp, ui, web, transcription_progress, temp_audio_file, fs, video, result, srt_content,
                   enh_result, outcome>>

\* The label each milestone reports (the same lines).
Label(l) ==
    CASE l = "cb5"   -> "Carregando modelo Whisper..."
      [] l = "cb10"  -> "Modelo Whisper carregado."
      [] l = "cb20"  -> "Exportando audio..."
      [] l = "cb30"  -> "Audio exportado com sucesso."
      [] l = "cb40"  -> "Transcrevendo audio (isso pode levar tempo)..."
      [] l = "cb90"  -> "Transcricao concluida."
      [] l = "cb100" -> "SRT gerado com sucesso."

\* flask_app.py:44-49: the callback the Flask worker supplies stores the
\* label and the percentage under the worker's job id (and a timestamp that
\* nothing reads, left out here).
FlaskCallback(job, step_description, percentage) ==
    transcription_progress' =
        (job :> [step |-> step_description, percentage |-> percentage])
            @@ transcription_progress

\* transcriber.py:117-118 and the six like it:
\* if progress_callback: progress_callback(label, pct).  A callback of the
\* caller's may do anything; the Flask worker's is the one above.
ProgressCallback(j) ==
    /\ pc[j] \in TvMilestones
    /\ IF ~inp[j].cb
         THEN /\ Goto(j, After(pc[j]))
              /\ UNCHANGED <<exc, trace, transcription_progress>>
         ELSE IF job_id[j] # NoJob
           THEN /\ Log(j, [Ev("callback", "ok") EXCEPT !.pct = Pct(pc[j])])
                /\ FlaskCallback(job_id[j], Label(pc[j]), Pct(pc[j]))
                /\ Goto(j, After(pc[j]))
                /\ UNCHANGED exc
           ELSE /\ \E r \in CallbackOutcomes :
                     /\ Log(j, [Ev("callback", r) EXCEPT !.pct = Pct(pc[j])])
                     /\ IF r = "ok"
                          THEN Goto(j, After(pc[j])) /\ UNCHANGED exc
                          ELSE Raise(j, r)
                /\ UNCHANGED transcription_progress
    /\ UNCHANGED <<inp, ui, web, temp_audio_file, fs, video, result, srt_content,
                   enh_result, outcome>>

\* What whisper.load_model can do: an unrecognized identifier is refused by
\* the engine with a RuntimeError.
LoadOutcomes(m) ==
    IF m \in WHISPER_MODELS THEN {"ok"} \cup ExcKinds ELSE {"Exception"}

\* transcriber.py:120
LoadModel(j) ==
    /\ pc[j] = "load_model"
    /\ \E r \in LoadOutcomes(inp[j].model_name) :
         /\ Log(j, Ev("load_model", r))
         /\ IF r = "ok"
              THEN Goto(j, "cb10") /\ UNCHANGED exc
              ELSE Raise(j, r)
    /\ UNCHANGED <<inp, ui, web, transcription_progress, temp_audio_file, fs, video, result, srt_content,
                   enh_result, outcome>>

\* transcriber.py:127: VideoFileClip(path); on failure nothing was opened,
\* and a file that is gone cannot be opened.
OpenVideo(j) ==
    /\ pc[j] = "open_video"
    /\ \E r \in (IF VideoPathExists(j) THEN {"ok"} ELSE {}) \cup ExcKinds :
         /\ Log(j, Ev("open_video", r))
         /\ IF r = "ok"
              THEN /\ Goto(j, "audio_check")
                   /\ video' = [video EXCEPT ![j] = "open"]
                   /\ UNCHANGED exc
              ELSE /\ Raise(j, r)
                   /\ UNCHANGED video
    /\ UNCHANGED <<inp, ui, web, transcription_progress, temp_audio_file, fs, result, srt_content,
                   enh_result, outcome>>

\* The with block without its check of video.audio.
AudioCheckSkipped(j) ==
    /\ pc[j] = "audio_check"
    /\ pc' = [pc EXCEPT ![j] = "mktemp"]
    /\ UNCHANGED <<inp, ui, web, transcription_progress, exc, temp_audio_file, fs, video, result, srt_content,
                   enh_result, outcome, trace>>

\* transcriber.py:128-129
AudioCheck(j) ==
    /\ pc[j] = "audio_check"
    /\ IF inp[j].video = "noaudio"
         THEN Raise(j, "ValueError")
         ELSE Goto(j, "mktemp") /\ UNCHANGED exc
    /\ UNCHANGED <<inp, ui, web, transcription_progress, temp_audio_file, fs, video, result, srt_content,
                   enh_result, outcome, trace>>

\* The audio written to one fixed path, whether a file is there or not.
MakeTempFileFixedName(j) ==
    /\ pc[j] = "mktemp"
    /\ fs' = fs \cup {1}
    /\ temp_audio_file' = [temp_audio_file EXCEPT ![j] = 1]
    /\ Log(j, [Ev("mktemp", "ok") EXCEPT !.file = 1])
    /\ Goto(j, "cb20")
    /\ UNCHANGED <<inp, ui, web, transcription_progress, exc, video, result, srt_content, enh_result, outcome>>

\* transcriber.py:132: NamedTemporaryFile(delete=False) creates a file under
\* a name no existing file has; a failure creates nothing.
MakeTempFile(j) ==
    /\ pc[j] = "mktemp"
    /\ \/ \E f \in TempNames \ fs :
            /\ fs' = fs \cup {f}
            /\ temp_audio_file' = [temp_audio_file EXCEPT ![j] = f]
            /\ Log(j, [Ev("mktemp", "ok") EXCEPT !.file = f])
            /\ Goto(j, "cb20")
            /\ UNCHANGED exc
       \/ \E r \in ExcKinds :
            /\ Log(j, Ev("mktemp", r))
            /\ Raise(j, r)
            /\ UNCHANGED <<fs, temp_audio_file>>
    /\ UNCHANGED <<inp, ui, web, transcription_progress, video, result, srt_content, enh_result, outcome>>

\* transcriber.py:136
ExportAudio(j) ==
    /\ pc[j] = "export"
    /\ \E r \in {"ok"} \cup ExcKinds :
         /\ Log(j, [Ev("export", r) EXCEPT !.file = temp_audio_file[j]])
         /\ IF r = "ok"
              THEN Goto(j, "cb30") /\ UNCHANGED exc
              ELSE Raise(j, r)
    /\ UNCHANGED <<inp, ui, web, transcription_progress, temp_audio_file, fs, video, result, srt_content,
                   enh_result, outcome>>

\* The end of the with block (transcriber.py:127), reached normally or by
\* an exception raised inside it: the container is released.
CloseVideo(j) ==
    /\ pc[j] = "close_video"
    /\ video' = [video EXCEPT ![j] = "closed"]
    /\ Log(j, Ev("close_video", "ok"))
    /\ Goto(j, IF exc[j] = "none" THEN "cb40" ELSE "except")
    /\ UNCHANGED <<inp, ui, web, transcription_progress, exc, temp_audio_file, fs, result, srt_content,
                   enh_result, outcome>>

\* transcriber.py:147-150: the two forms of the call.
Transcribe(j) ==
    /\ pc[j] = "transcribe"
    /\ LET l    == inp[j].language
           call == IF PassLanguage(l)
                     THEN [Ev("transcribe", "ok") EXCEPT
                             !.file = temp_audio_file[j],
                             !.withLang = TRUE, !.lang = l.val]
                     ELSE [Ev("transcribe", "ok") EXCEPT
                             !.file = temp_audio_file[j]]
       IN  \/ \E s \in SegmentLists :
                /\ Log(j, [call EXCEPT !.segs = s])
                /\ result' = [result EXCEPT ![j] = s]
                /\ Goto(j, "cb90")
                /\ UNCHANGED exc
           \/ \E r \in ExcKinds :
                /\ Log(j, [call EXCEPT !.res = r])
                /\ Raise(j, r)
                /\ UNCHANGED result
    /\ UNCHANGED <<inp, ui, web, transcription_progress, temp_audio_file, fs, video, srt_content,
                   enh_result, outcome>>

\* transcriber.py:157-163
Format(j) ==
    /\ pc[j] = "format"
    /\ srt_content' = [srt_content EXCEPT ![j] = FormatSRT(result[j])]
    /\ Log(j, Ev("format", "ok"))
    /\ Goto(j, "cb100")
    /\ UNCHANGED <<inp, ui, web, transcription_progress, exc, temp_audio_file, fs, video, result,
                   enh_result, outcome>>

\* transcriber.py:170-178: FileNotFoundError and ValueError are re-raised as
\* they are, any other Exception is wrapped in a RuntimeError, and a
\* BaseException that is no Exception matches no clause.
Handler(k) ==
    CASE k = "FileNotFoundError" -> "FileNotFoundError"
      [] k = "ValueError"        -> "ValueError"
      [] k = "Exception"         -> "RuntimeError"
      [] OTHER                   -> k

\* A handler that reports completion before it re-raises.
ExceptReportsDone(j) ==
    /\ pc[j] = "except"
    /\ exc' = [exc EXCEPT ![j] = Handler(exc[j])]
    /\ IF inp[j].cb
         THEN Log(j, [Ev("callback", "ok") EXCEPT !.pct = 100])
         ELSE UNCHANGED trace
    /\ Goto(j, "finally")
    /\ UNCHANGED <<inp, ui, web, transcription_progress, temp_audio_file, fs, video, result, srt_content,
                   enh_result, outcome>>

\* transcriber.py:170-178: the clause that matches re-raises.
Except(j) ==
    /\ pc[j] = "except"
    /\ exc' = [exc EXCEPT ![j] = Handler(exc[j])]
    /\ Goto(j, "finally")
    /\ UNCHANGED <<inp, ui, web, transcription_progress, temp_audio_file, fs, video, result, srt_content,
                   enh_result, outcome, trace>>

\* The cleanup as the last statement of the try body instead of a finally.
MustUnlinkOnSuccessOnly(j) ==
    temp_audio_file[j] # 0 /\ temp_audio_file[j] \in fs /\ exc[j] = "none"

\* transcriber.py:181: if temp_audio_file and temp_audio_file.exists()
MustUnlink(j) == temp_audio_file[j] # 0 /\ temp_audio_file[j] \in fs

Finally(j) ==
    /\ pc[j] = "finally"
    /\ Goto(j, IF MustUnlink(j) THEN "unlink" ELSE "tv_exit")
    /\ UNCHANGED <<inp, ui, web, transcription_progress, exc, temp_audio_file, fs, video, result, srt_content,
                   enh_result, outcome, trace>>

\* transcriber.py:182: unlink() of a file that is gone raises
\* FileNotFoundError, which replaces whatever was in flight.
Unlink(j) ==
    /\ pc[j] = "unlink"
    /\ IF temp_audio_file[j] \in fs
         THEN /\ fs' = fs \ {temp_audio_file[j]}
              /\ Log(j, [Ev("unlink", "ok") EXCEPT !.file = temp_audio_file[j]])
              /\ UNCHANGED exc
         ELSE /\ Log(j, [Ev("unlink", "FileNotFoundError") EXCEPT
                           !.file = temp_audio_file[j]])
              /\ exc' = [exc EXCEPT ![j] = "FileNotFoundError"]
              /\ UNCHANGED fs
    /\ Goto(j, "tv_exit")
    /\ UNCHANGED <<inp, ui, web, transcription_progress, temp_audio_file, video, result, srt_content,
                   enh_result, outcome>>

\* transcribe_video ends: it returns srt_content (line 168) or the exception
\* in flight leaves it.  Called from transcribe_video_enhanced (line 54),
\* which has no handler around the call, the value becomes
\* basic_transcription and an exception leaves the enhanced call too.
TvExit(j) ==
    /\ pc[j] = "tv_exit"
    /\ IF exc[j] # "none"
         THEN /\ outcome' = [outcome EXCEPT ![j] = [status |-> "raised", exc |-> exc[j]]]
              /\ Goto(j, "done")
         ELSE IF inp[j].op = "tv"
                THEN /\ outcome' = [outcome EXCEPT ![j] = [status |-> "returned", exc |-> "none"]]
                     /\ Goto(j, "done")
                ELSE /\ Goto(j, "enh_result")
                     /\ UNCHANGED outcome
    /\ UNCHANGED <<inp, ui, web, transcription_progress, exc, temp_audio_file, fs, video, result, srt_content,
                   enh_result, trace>>

TvStep(j) ==
    \/ CheckPath(j)
    \/ ProgressCallback(j)
    \/ LoadModel(j)
    \/ OpenVideo(j)
    \/ AudioCheck(j)
    \/ MakeTempFile(j)
    \/ ExportAudio(j)
    \/ CloseVideo(j)
    \/ Transcribe(j)
    \/ Format(j)
    \/ Except(j)
    \/ Finally(j)
    \/ Unlink(j)
    \/ TvExit(j)

\* ---------------------------------------------- transcribe_video_enhanced

\* transcriber.py:54: the call of transcribe_video.
EnhCall(j) ==
    /\ pc[j] = "enh_entry"
    /\ Goto(j, "check_path")
    /\ UNCHANGED <<inp, ui, web, transcription_progress, exc, temp_audio_file, fs, video, result, srt_content,
                   enh_result, outcome, trace>>

\* transcriber.py:56-64
EnhResult(j) ==
    /\ pc[j] = "enh_result"
    /\ enh_result' = [enh_result EXCEPT ![j] =
          [transcription |-> srt_content[j],
           video_path    |-> inp[j].video,
           model_used    |-> inp[j].model_name,
           language      |-> inp[j].language,
           phi3_enabled  |-> inp[j].enable_phi3]]
    /\ Goto(j, IF inp[j].enable_phi3 THEN "cb70" ELSE "enh_return")
    /\ UNCHANGED <<inp, ui, web, transcription_progress, exc, temp_audio_file, fs, video, result, srt_content,
                   outcome, trace>>

EnhMilestones == {"cb70", "cb80", "cb100a"}

\* The analysis milestones on a scale of their own below 70.
EnhPctLow(l) ==
    CASE l = "cb70"   -> 60
      [] l = "cb80"   -> 80
      [] l = "cb100a" -> 100

\* transcriber.py:67, 72, 78
EnhPct(l) ==
    CASE l = "cb70"   -> 70
      [] l = "cb80"   -> 80
      [] l = "cb100a" -> 100

\* The statement that follows each analysis milestone.
EnhAfter(l) ==
    CASE l = "cb70"   -> "brain"
      [] l = "cb80"   -> "generate_metadata"
      [] l = "cb100a" -> "enh_return"

\* The analysis phase without its try: whatever is raised leaves the call.
EnhRaiseUnhandled(j, k) ==
    /\ outcome' = [outcome EXCEPT ![j] = [status |-> "raised", exc |-> k]]
    /\ Goto(j, "done")
    /\ UNCHANGED exc

\* An exception of kind k raised inside the try of lines 65-82: an
\* Exception goes to the handler, anything else leaves the call.
EnhRaise(j, k) ==
    IF IsException(k)
      THEN /\ exc' = [exc EXCEPT ![j] = k]
           /\ Goto(j, "enh_except")
           /\ UNCHANGED outcome
      ELSE /\ outcome' = [outcome EXCEPT ![j] = [status |-> "raised", exc |-> k]]
           /\ Goto(j, "done")
           /\ UNCHANGED exc

\* transcriber.py:66-67, 71-72, 77-78
AnalysisProgressCallback(j) ==
    /\ pc[j] \in EnhMilestones
    /\ IF ~inp[j].cb
         THEN /\ Goto(j, EnhAfter(pc[j]))
              /\ UNCHANGED <<exc, trace, outcome>>
         ELSE \E r \in CallbackOutcomes :
                /\ Log(j, [EnhEv("callback", r) EXCEPT !.pct = EnhPct(pc[j])])
                /\ IF r = "ok"
                     THEN Goto(j, EnhAfter(pc[j])) /\ UNCHANGED <<exc, outcome>>
                     ELSE EnhRaise(j, r)
    /\ UNCHANGED <<inp, ui, web, transcription_progress, temp_audio_file, fs, video, result, srt_content,
                   enh_result>>

\* transcriber.py:69: Phi3Brain() loads the language model and re-raises a
\* load failure (phi3_brain.py:47-77).
Brain(j) ==
    /\ pc[j] = "brain"
    /\ \E r \in {"ok"} \cup ExcKinds :
         /\ Log(j, EnhEv("Phi3Brain", r))
         /\ IF r = "ok"
              THEN Goto(j, "cb80") /\ UNCHANGED <<exc, outcome>>
              ELSE EnhRaise(j, r)
    /\ UNCHANGED <<inp, ui, web, transcription_progress, temp_audio_file, fs, video, result, srt_content,
                   enh_result>>

\* transcriber.py:75: generate_metadata returns its record, or the first
\* exception that left _generate_response leaves it too.
GenerateMetadata(j) ==
    /\ pc[j] = "generate_metadata"
    /\ IF Uncaught(inp[j].lm) = {}
         THEN /\ Log(j, EnhEv("generate_metadata", "ok"))
              /\ enh_result' = [enh_result EXCEPT ![j] =
                    ("phi3_analysis" :> Metadata(srt_content[j], inp[j].lm)) @@ @]
              /\ Goto(j, "cb100a")
              /\ UNCHANGED <<exc, outcome>>
         ELSE /\ Log(j, EnhEv("generate_metadata", inp[j].lm[FirstUncaught(inp[j].lm)]))
              /\ EnhRaise(j, inp[j].lm[FirstUncaught(inp[j].lm)])
              /\ UNCHANGED enh_result
    /\ UNCHANGED <<inp, ui, web, transcription_progress, temp_audio_file, fs, video, result, srt_content>>

\* The handler that logs the failure and stores nothing.
EnhExceptSilent(j) ==
    /\ pc[j] = "enh_except"
    /\ exc' = [exc EXCEPT ![j] = "none"]
    /\ Goto(j, "enh_return")
    /\ UNCHANGED <<inp, ui, web, transcription_progress, temp_audio_file, fs, video, result, srt_content,
                   enh_result, outcome, trace>>

\* transcriber.py:80-82
EnhExcept(j) ==
    /\ pc[j] = "enh_except"
    /\ enh_result' = [enh_result EXCEPT ![j] =
          ("phi3_analysis" :> [error |-> exc[j]]) @@ @]
    /\ exc' = [exc EXCEPT ![j] = "none"]
    /\ Goto(j, "enh_return")
    /\ UNCHANGED <<inp, ui, web, transcription_progress, temp_audio_file, fs, video, result, srt_content,
                   outcome, trace>>

\* transcriber.py:84
EnhReturn(j) ==
    /\ pc[j] = "enh_return"
    /\ outcome' = [outcome EXCEPT ![j] = [status |-> "returned", exc |-> "none"]]
    /\ Goto(j, "done")
    /\ UNCHANGED <<inp, ui, web, transcription_progress, exc, temp_audio_file, fs, video, result, srt_content,
                   enh_result, trace>>

EnhStep(j) ==
    \/ EnhCall(j)
    \/ EnhResult(j)
    \/ AnalysisProgressCallback(j)
    \/ Brain(j)
    \/ GenerateMetadata(j)
    \/ EnhExcept(j)
    \/ EnhReturn(j)

\* -------------------------------------------------------------- front-ends

\* The programs that call the core: the command-line tool (cli_app.py), the
\* Flask worker (web/flask_app.py) and the two Streamlit pages
\* (web/app_working.py, web/streamlit_app.py).
FrontEnds == {"cli", "flask", "app_working", "streamlit_app"}

Show(j, form, arg) ==
    ui' = [ui EXCEPT ![j] = [@ EXCEPT !.form = form, !.arg = arg]]

\* The front-end starts its job.  cli_app.py:141-145 looks for the input
\* file itself and leaves with "File not found: ..." before any call of the
\* core; the web front-ends call the core at once (flask_app.py:61,
\* app_working.py:99, streamlit_app.py:144-159).
FeStart(j) ==
    /\ pc[j] = "fe_entry"
    /\ IF inp[j].fe = "cli" /\ inp[j].video = "missing"
         THEN /\ Show(j, "cli_file_not_found", "none")
              /\ Goto(j, "fe_done")
         ELSE /\ Goto(j, IF inp[j].op = "enh" THEN "enh_entry" ELSE "check_path")
              /\ UNCHANGED ui
    /\ UNCHANGED <<inp, web, transcription_progress, exc, temp_audio_file, fs, video, result, srt_content,
                   enh_result, outcome, trace>>

\* The message form each front-end has for an exception of kind k that left
\* the core: cli_app.py:207-209, flask_app.py:86-96,
\* app_working.py:110-116, streamlit_app.py:172-173.
FeErrorForm(fe, k) ==
    CASE fe = "cli"           -> "cli_error"
      [] fe = "flask"         -> "flask_erro"
      [] fe = "streamlit_app" -> "st_error_processing"
      [] fe = "app_working"   ->
           CASE k = "FileNotFoundError" -> "st_not_found"
             [] k = "ValueError"        -> "st_validation"
             [] OTHER                   -> "st_generic"

\* The message form each front-end has for a job that went well:
\* cli_app.py:204, flask_app.py:72-84, app_working.py:107-108; streamlit_app.py
\* stores the result and shows no message of its own.
FeSuccessForm(fe) ==
    CASE fe = "cli"           -> "cli_completed"
      [] fe = "flask"         -> "flask_completed"
      [] fe = "app_working"   -> "st_success"
      [] fe = "streamlit_app" -> "st_result"

\* The core call is over and the front-end reports.  Every front-end
\* catches Exception and nothing wider; the command-line tool first prints
\* the analysis of an enhanced result (cli_app.py:177).
FeReport(j) ==
    /\ pc[j] = "done"
    /\ inp[j].fe # "none"
    /\ IF outcome[j].status = "returned"
         THEN IF inp[j].fe = "cli" /\ inp[j].op = "enh"
                THEN Goto(j, "display") /\ UNCHANGED ui
                ELSE Goto(j, "fe_done") /\ Show(j, FeSuccessForm(inp[j].fe), "none")
         ELSE /\ Goto(j, "fe_done")
              /\ IF IsException(outcome[j].exc)
                   THEN Show(j, FeErrorForm(inp[j].fe, outcome[j].exc), outcome[j].exc)
                   ELSE UNCHANGED ui
    /\ UNCHANGED <<inp, web, transcription_progress, exc, temp_audio_file, fs, video, result, srt_content,
                   enh_result, outcome, trace>>

\* One print of display_analysis_results: the section it belongs to and,
\* for the summary, the text printed.
Item(tag, val) == [tag |-> tag, val |-> val]

Has(r, key) == key \in DOMAIN r

\* The renderer with a summary section that does not ask for its key.
DisplaySummaryAlways(analysis) ==
    <<Item("summary", "")>>

\* cli_app.py:269-270
DisplaySummary(analysis) ==
    IF Has(analysis, "summary")
      THEN <<Item("summary", analysis.summary)>> ELSE <<>>

\* cli_app.py:273-274
DisplayTopics(analysis) ==
    IF Has(analysis, "key_topics") /\ analysis.key_topics # <<>>
      THEN <<Item("key_topics", "")>> ELSE <<>>

\* cli_app.py:277-283
DisplayQuality(analysis) ==
    IF Has(analysis, "quality_assessment")
      THEN LET qa == analysis.quality_assessment
           IN  (IF Has(qa, "quality_score") THEN <<Item("quality_score", "")>> ELSE <<>>)
                 \o (IF Has(qa, "confidence_level") THEN <<Item("confidence", "")>> ELSE <<>>)
                 \o <<Item("quality_end", "")>>
      ELSE <<>>

\* cli_app.py:286-292
DisplaySentiment(analysis) ==
    IF Has(analysis, "sentiment_analysis")
      THEN LET sa == analysis.sentiment_analysis
           IN  (IF Has(sa, "sentiment") THEN <<Item("sentiment", "")>> ELSE <<>>)
                 \o (IF Has(sa, "tone") THEN <<Item("tone", "")>> ELSE <<>>)
                 \o <<Item("sentiment_end", "")>>
      ELSE <<>>

\* cli_app.py:295-299
DisplayQuestions(analysis) ==
    IF Has(analysis, "suggested_questions") /\ analysis.suggested_questions # <<>>
      THEN <<Item("suggested_questions", "")>> ELSE <<>>

\* cli_app.py:302-307
DisplayStatistics(analysis) ==
    IF Has(analysis, "word_count")
      THEN <<Item("statistics", ""), Item("words", "")>>
             \o (IF Has(analysis, "estimated_duration_minutes")
                   THEN <<Item("duration", "")>> ELSE <<>>)
             \o <<Item("statistics_end", "")>>
      ELSE <<>>

\* cli_app.py:257-307: everything display_analysis_results prints.
DisplayLines(res) ==
    IF ~Has(res, "phi3_analysis") \/ Has(res.phi3_analysis, "error")
      THEN <<Item("unavailable", "")>>
      ELSE LET analysis == res.phi3_analysis
           IN  <<Item("header", ""), Item("rule", "")>>
                 \o DisplaySummary(analysis)
                 \o DisplayTopics(analysis)
                 \o DisplayQuality(analysis)
                 \o DisplaySentiment(analysis)
                 \o DisplayQuestions(analysis)
                 \o DisplayStatistics(analysis)

\* cli_app.py:177: display_analysis_results(result)
DisplayAnalysisResults(j) ==
    /\ pc[j] = "display"
    /\ ui' = [ui EXCEPT ![j] = [@ EXCEPT !.out = DisplayLines(enh_result[j])]]
    /\ Goto(j, "cli_completed")
    /\ UNCHANGED <<inp, web, transcription_progress, exc, temp_audio_file, fs, video, result, srt_content,
                   enh_result, outcome, trace>>

\* cli_app.py:204-205
CliCompleted(j) ==
    /\ pc[j] = "cli_completed"
    /\ Show(j, FeSuccessForm("cli"), "none")
    /\ Goto(j, "fe_done")
    /\ UNCHANGED <<inp, web, transcription_progress, exc, temp_audio_file, fs, video, result, srt_content,
                   enh_result, outcome, trace>>

FeStep(j) ==
    \/ FeStart(j)
    \/ FeReport(j)
    \/ DisplayAnalysisResults(j)
    \/ CliCompleted(j)

\* The language argument each front-end passes for the language selected:
\* cli_app.py:167 and 197 pass it on, flask_app.py:64 and app_working.py:102
\* pass None for 'auto', streamlit_app.py:148 and 157 pass "pt" for it.
FeLanguage(fe, sel) ==
    CASE fe = "cli" -> Some(sel)
      [] fe \in {"flask", "app_working"} ->
           IF sel # <<"a", "u", "t", "o">> THEN Some(sel) ELSE None
      [] fe = "streamlit_app" ->
           IF sel # <<"a", "u", "t", "o">> THEN Some(sel) ELSE Some(<<"p", "t">>)

\* ------------------------------------------- the Flask service (flask_app.py)

\* flask_app.py:26
ALLOWED_EXTENSIONS ==
    {<<"m", "p", "4">>, <<"m", "o", "v">>, <<"a", "v", "i">>,
     <<"m", "k", "v">>, <<"w", "e", "b", "m">>}

\* The position of the last dot of a name, 0 when it has none.
LastDot(filename) ==
    IF \E i \in DOMAIN filename : filename[i] = "."
      THEN CHOOSE i \in DOMAIN filename :
              filename[i] = "." /\ \A k \in (i + 1)..Len(filename) : filename[k] # "."
      ELSE 0

\* flask_app.py:35-38: '.' in filename and
\* filename.rsplit('.', 1)[1].lower() in ALLOWED_EXTENSIONS
allowed_file(filename) ==
    /\ LastDot(filename) # 0
    /\ lower(SubSeq(filename, LastDot(filename) + 1, Len(filename)))
          \in ALLOWED_EXTENSIONS

\* werkzeug's secure_filename on names of letters, digits, dots and single
\* blanks: "_".join(filename.split()) puts an underscore for each blank.
secure_filename(filename) ==
    [i \in 1..Len(filename) |-> IF IsSpace(filename[i]) THEN "_" ELSE filename[i]]

\* flask_app.py:123: f"{int(time.time())}_{filename}"
JobId(t, filename) == [time |-> t, filename |-> filename]

\* The upload requests a client can send: one without the file part, one
\* with an empty filename, one with a text file, and three videos, of which
\* two have names that secure_filename makes the same and one has no audio
\* stream.  The form carries the model and the language.
UploadRequests ==
    { [has_file |-> FALSE, filename |-> <<>>, content |-> "missing",
       model |-> "base", language |-> <<"p", "t">>],
      [has_file |-> TRUE, filename |-> <<>>, content |-> "missing",
       model |-> "base", language |-> <<"p", "t">>],
      [has_file |-> TRUE, filename |-> <<"n", ".", "t", "x", "t">>,
       content |-> "missing", model |-> "base", language |-> <<"p", "t">>],
      [has_file |-> TRUE, filename |-> <<"a", " ", "b", ".", "m", "p", "4">>,
       content |-> "ok", model |-> "base", language |-> <<"a", "u", "t", "o">>],
      [has_file |-> TRUE, filename |-> <<"a", "_", "b", ".", "m", "p", "4">>,
       content |-> "ok", model |-> "base", language |-> <<"p", "t">>],
      [has_file |-> TRUE, filename |-> <<"m", ".", "m", "o", "v">>,
       content |-> "noaudio", model |-> "base", language |-> <<"p", "t">>] }

\* A request that has not been handled yet.
PendingUpload == [OffInput EXCEPT !.op = "upload"]

\* flask_app.py:61-66: the call the worker will make for request r.
WorkerCall(r) ==
    [op |-> "tv", fe |-> "flask", selected |-> r.language, video |-> r.content,
     model_name |-> r.model, language |-> FeLanguage("flask", r.language),
     enable_phi3 |-> FALSE, cb |-> TRUE, lm |-> PlainLM]

\* time.time() moves on; only upload_file reads it.
Tick ==
    /\ now < MaxClock
    /\ \E j \in JobIds : pc[j] = "upload"
    /\ now' = now + 1
    /\ UNCHANGED <<inp, pc, exc, temp_audio_file, fs, video, result, srt_content,
                   enh_result, outcome, trace, ui, request, job_id,
                   upload_folder, results_folder, transcription_progress,
                   transcription_results, poll, last_response>>

\* flask_app.py:108-146, upload_file: the request is refused with 400
\* (lines 110-118), or the file is saved under the job id, over any file of
\* that name, and the worker thread is started (lines 120-137), or saving
\* fails and the answer is 500 (lines 145-146).
Upload(j) ==
    /\ pc[j] = "upload"
    /\ LET r == request[j] IN
         IF ~r.has_file \/ r.filename = <<>> \/ ~allowed_file(r.filename)
           THEN /\ Goto(j, "refused")
                /\ UNCHANGED <<inp, job_id, upload_folder>>
           ELSE \/ /\ job_id' = [job_id EXCEPT ![j] =
                                    JobId(now, secure_filename(r.filename))]
                   /\ upload_folder' = upload_folder \cup
                                    {JobId(now, secure_filename(r.filename))}
                   /\ inp' = [inp EXCEPT ![j] = WorkerCall(r)]
                   /\ Goto(j, "worker")
                \/ /\ Goto(j, "upload_failed")
                   /\ UNCHANGED <<inp, job_id, upload_folder>>
    /\ UNCHANGED <<exc, temp_audio_file, fs, video, result, srt_content,
                   enh_result, outcome, trace, ui, now, request, results_folder,
                   transcription_progress, transcription_results, poll,
                   last_response>>

\* flask_app.py:53-61, transcribe_worker: the thread runs, makes its
\* callback and calls transcribe_video.
WorkerStart(j) ==
    /\ pc[j] = "worker"
    /\ Goto(j, "check_path")
    /\ UNCHANGED <<inp, ui, web, transcription_progress, exc, temp_audio_file,
                   fs, video, result, srt_content, enh_result, outcome, trace>>

\* transcribe_video has returned to the worker of job j.
CoreReturned(j) ==
    job_id[j] # NoJob /\ pc[j] = "done" /\ outcome[j].status = "returned"

\* An exception is in flight in the worker's try block: it left
\* transcribe_video, or write_text raised it.
InFlight(j) ==
    /\ job_id[j] # NoJob
    /\ \/ pc[j] = "done" /\ outcome[j].status = "raised"
       \/ pc[j] = "worker_except"

\* What write_text can raise: the folder is gone (FileNotFoundError), the
\* text cannot be encoded (UnicodeEncodeError, a ValueError), the disk is
\* full (OSError).
WriteFailures == {"FileNotFoundError", "ValueError", "Exception"}

\* flask_app.py:69-70: the .srt file is written, or write_text fails and
\* leaves no file.
WriteResult(j) ==
    /\ CoreReturned(j)
    /\ \/ /\ results_folder' = results_folder \cup {job_id[j]}
          /\ Goto(j, "store_completed")
          /\ UNCHANGED exc
       \/ \E k \in WriteFailures :
             /\ exc' = [exc EXCEPT ![j] = k]
             /\ Goto(j, "worker_except")
             /\ UNCHANGED results_folder
    /\ UNCHANGED <<inp, ui, temp_audio_file, fs, video, result, srt_content,
                   enh_result, outcome, trace, now, request, job_id, upload_folder,
                   transcription_progress, transcription_results, poll,
                   last_response>>

\* flask_app.py:72-77
StoreCompleted(j) ==
    /\ pc[j] = "store_completed"
    /\ transcription_results' =
          (job_id[j] :> [status |-> "completed", srt_content |-> srt_content[j],
                         result_file |-> job_id[j]]) @@ transcription_results
    /\ Goto(j, "progress_completed")
    /\ UNCHANGED <<inp, ui, exc, temp_audio_file, fs, video, result, srt_content,
                   enh_result, outcome, trace, now, request, job_id, upload_folder,
                   results_folder, transcription_progress, poll, last_response>>

\* flask_app.py:80-84
ProgressCompleted(j) ==
    /\ pc[j] = "progress_completed"
    /\ FlaskCallback(job_id[j], "Transcricao concluida!", 100)
    /\ Goto(j, "worker_finally")
    /\ UNCHANGED <<inp, ui, web, exc, temp_audio_file, fs, video, result,
                   srt_content, enh_result, outcome, trace>>

\* flask_app.py:86-91: the clause except Exception takes the exception and
\* stores the error result.
StoreError(j) ==
    /\ InFlight(j) /\ IsException(exc[j])
    /\ transcription_results' =
          (job_id[j] :> [status |-> "error", error |-> exc[j]])
              @@ transcription_results
    /\ Goto(j, "progress_error")
    /\ UNCHANGED <<inp, ui, exc, temp_audio_file, fs, video, result, srt_content,
                   enh_result, outcome, trace, now, request, job_id, upload_folder,
                   results_folder, transcription_progress, poll, last_response>>

\* The step f'Erro: {str(e)}' for an exception of kind k.
ErrorStep(k) ==
    CASE k = "FileNotFoundError" -> "Erro: FileNotFoundError"
      [] k = "ValueError"        -> "Erro: ValueError"
      [] k = "RuntimeError"      -> "Erro: RuntimeError"
      [] OTHER                   -> "Erro: Exception"

\* flask_app.py:92-96
ProgressError(j) ==
    /\ pc[j] = "progress_error"
    /\ FlaskCallback(job_id[j], ErrorStep(exc[j]), 0)
    /\ exc' = [exc EXCEPT ![j] = "none"]
    /\ Goto(j, "worker_finally")
    /\ UNCHANGED <<inp, ui, web, temp_audio_file, fs, video, result,
                   srt_content, enh_result, outcome, trace>>

\* A BaseException that is no Exception matches no clause of the worker.
WorkerUncaught(j) ==
    /\ InFlight(j) /\ ~IsException(exc[j])
    /\ Goto(j, "worker_finally")
    /\ UNCHANGED <<inp, ui, web, transcription_progress, exc, temp_audio_file,
                   fs, video, result, srt_content, enh_result, outcome, trace>>

\* flask_app.py:99: if video_path_obj.exists()
WorkerFinally(j) ==
    /\ pc[j] = "worker_finally"
    /\ Goto(j, IF job_id[j] \in upload_folder THEN "worker_unlink" ELSE "worker_end")
    /\ UNCHANGED <<inp, ui, web, transcription_progress, exc, temp_audio_file,
                   fs, video, result, srt_content, enh_result, outcome, trace>>

\* flask_app.py:100: unlink() of a file that is gone raises
\* FileNotFoundError, which ends the thread.
WorkerUnlink(j) ==
    /\ pc[j] = "worker_unlink"
    /\ IF job_id[j] \in upload_folder
         THEN /\ upload_folder' = upload_folder \ {job_id[j]}
              /\ UNCHANGED exc
         ELSE /\ exc' = [exc EXCEPT ![j] = "FileNotFoundError"]
              /\ UNCHANGED upload_folder
    /\ Goto(j, "worker_end")
    /\ UNCHANGED <<inp, ui, temp_audio_file, fs, video, result, srt_content,
                   enh_result, outcome, trace, now, request, job_id, results_folder,
                   transcription_progress, transcription_results, poll,
                   last_response>>

WorkerStep(j) ==
    \/ WorkerStart(j)
    \/ WriteResult(j)
    \/ StoreCompleted(j)
    \/ ProgressCompleted(j)
    \/ StoreError(j)
    \/ ProgressError(j)
    \/ WorkerUncaught(j)
    \/ WorkerFinally(j)
    \/ WorkerUnlink(j)

\* dict.get(key, default)
Get(dict, key, default) == IF key \in DOMAIN dict THEN dict[key] ELSE default

\* flask_app.py:150: a client asks for the progress of a job id an upload
\* has given out; the handler reads the progress dict.
PollProgress ==
    /\ poll.at = "idle"
    /\ \E j \in JobIds :
         /\ job_id[j] # NoJob
         /\ poll' = [at |-> "read", job |-> job_id[j],
                     progress |-> Get(transcription_progress, job_id[j],
                                      [step |-> "Preparando...", percentage |-> 0])]
    /\ UNCHANGED <<inp, pc, exc, temp_audio_file, fs, video, result, srt_content,
                   enh_result, outcome, trace, ui, now, request, job_id, upload_folder,
                   results_folder, transcription_progress,
                   transcription_results, last_response>>

\* flask_app.py:151-156: it reads the result dict and answers with both.
PollResult ==
    /\ poll.at = "read"
    /\ last_response' =
          [job |-> poll.job, progress |-> poll.progress,
           result |-> Get(transcription_results, poll.job,
                          [status |-> "processing"])]
    /\ poll' = NoPoll
    /\ UNCHANGED <<inp, pc, exc, temp_audio_file, fs, video, result, srt_content,
                   enh_result, outcome, trace, ui, now, request, job_id, upload_folder,
                   results_folder, transcription_progress,
                   transcription_results>>

\* ---------------------------------------------------------- specification

Next == \E j \in JobIds : TvStep(j) \/ EnhStep(j)

Spec == Init /\ [][Next]_vars

\* Two concurrent calls of transcribe_video with the same arguments, the
\* first without a progress callback and the second with one.
Init2 ==
    \E c \in ValidCalls :
        /\ c.op = "tv" /\ ~c.cb
        /\ c.language \in {None, Some(<<"p", "t">>)}
        /\ InitWith([j \in JobIds |-> IF j = 1 THEN c ELSE [c EXCEPT !.cb = TRUE]])

Next2 == \E j \in JobIds : TvStep(j)

Spec2 == Init2 /\ [][Next2]_vars

\* A front-end job: the user's choices, turned into the call the front-end
\* makes.
FeSelections == {<<"a", "u", "t", "o">>, <<"p", "t">>}

\* cli_app.py:162-199 and streamlit_app.py:144-159 call
\* transcribe_video_enhanced when the analysis is enabled and transcribe_video
\* otherwise; flask_app.py:61 and app_working.py:99 call transcribe_video.
\* Every front-end passes a callback.  The model identifier comes from a
\* closed list except in the Flask form (flask_app.py:128).
FeCalls ==
    { [op |-> IF p THEN "enh" ELSE "tv", fe |-> f, selected |-> s,
       video |-> v, model_name |-> m, language |-> FeLanguage(f, s),
       enable_phi3 |-> p, cb |-> TRUE, lm |-> r] :
         f \in FrontEnds, s \in FeSelections, v \in VideoFiles,
         m \in ModelNames, p \in BOOLEAN, r \in LMRuns }

ValidFeCalls ==
    { c \in FeCalls : /\ c.fe \in {"flask", "app_working"} => ~c.enable_phi3
                      /\ c.fe # "flask" => c.model_name \in WHISPER_MODELS
                      /\ ~c.enable_phi3 => c.lm = PlainLM }

\* One job started by a front-end.
InitFE ==
    \E c \in ValidFeCalls :
        InitWith([j \in JobIds |-> IF j = 1 THEN c ELSE OffInput])

NextFE == \E j \in JobIds : TvStep(j) \/ EnhStep(j) \/ FeStep(j)

SpecFE == InitFE /\ [][NextFE]_vars

\* The requests with the two video names that secure_filename makes the same.
SameNameRequests == {r \in UploadRequests : r.content = "ok"}

\* The Flask service with two upload requests: the first is a text file or a
\* video, the second a video of the same name as the first video.
InitFlask ==
    \E r1 \in UploadRequests, r2 \in SameNameRequests :
        /\ r1.has_file /\ r1.filename # <<>> /\ r1.content # "noaudio"
        /\ r1.language # r2.language /\ r2.language = <<"p", "t">>
        /\ CoreInit([j \in JobIds |-> PendingUpload])
        /\ WebInitWith([j \in JobIds |-> IF j = 1 THEN r1 ELSE r2])

NextFlask == Tick \/ \E j \in JobIds : Upload(j) \/ TvStep(j) \/ WorkerStep(j)

SpecFlask == InitFlask /\ [][NextFlask]_vars

\* Each thread that can take a step eventually takes one.
FairFlask ==
    \A j \in JobIds : WF_vars(Upload(j) \/ TvStep(j) \/ WorkerStep(j))

SpecFlaskFair == SpecFlask /\ FairFlask

\* The Flask service with one upload request and a client that polls.
InitPoll ==
    \E r \in UploadRequests :
        /\ CoreInit([j \in JobIds |-> IF j = 1 THEN PendingUpload ELSE OffInput])
        /\ WebInitWith([j \in JobIds |-> IF j = 1 THEN r ELSE NoRequest])

NextPoll ==
    \/ Tick
    \/ PollProgress
    \/ PollResult
    \/ \E j \in JobIds : Upload(j) \/ TvStep(j) \/ WorkerStep(j)

SpecPoll == InitPoll /\ [][NextPoll]_vars

\* ------------------------------------------------- the functions on their own

\* Bound on the number of segments the engine returns.
MaxSegs == 2

\* Seconds values in ticks: 0, 1.5, 2.2996, 59.9995 and 3725.4 seconds, and
\* 58 hours 59 minutes 59.9995 seconds.
FormatTimes == {0, 15000, 22996, 599995, 37254000, 2123999995}

FormatTexts == { <<" ", "a", " ">>, <<"\n", "a", " ", "b", "\t">> }

FormatSegments ==
    { Segment(s, e, t) : s \in FormatTimes, e \in FormatTimes, t \in FormatTexts }

\* The segment sequences format inputs are drawn from: every segment ends
\* no earlier than it starts.
FormatInputs ==
    UNION { [1..n -> {g \in FormatSegments : g.start <= g.end}] : n \in 0..MaxSegs }

\* Every way the language model can treat the five prompts.
LMBehaviours == [AnalysisCalls -> LMReplies]

Transcriptions == { <<>>, FormatSRT(<<Segment(0, 15000, <<"a", " ", "b">>)>>) }

AnalysisKeys ==
    {"summary", "key_topics", "sentiment_analysis", "quality_assessment",
     "suggested_questions", "word_count", "estimated_duration_minutes"}

\* The records display_analysis_results is given: no analysis, or an
\* analysis with any of its keys missing, with or without an error key.
PartialAnalyses ==
    { [k \in S |-> IF k = "error" THEN "message" ELSE full[k]] :
        S \in SUBSET (AnalysisKeys \cup {"error"}),
        full \in { Metadata(<<"a">>, [i \in AnalysisCalls |-> r]) :
                      r \in {"json", "json_other", "empty", "plain"} } }

DisplayInputs ==
    { [transcription |-> <<"a">>] }
      \cup { [transcription |-> <<"a">>, phi3_analysis |-> a] : a \in PartialAnalyses }

EnhancedCall ==
    [op |-> "enh", fe |-> "none", selected |-> <<>>, video |-> "ok",
     model_name |-> "base", language |-> None, enable_phi3 |-> TRUE,
     cb |-> FALSE, lm |-> PlainLM]

PureInit(call, at, segs, srt, res) ==
    /\ inp = [j \in JobIds |-> IF j = 1 THEN call ELSE OffInput]
    /\ pc = [j \in JobIds |-> IF j = 1 THEN at ELSE "off"]
    /\ exc = [j \in JobIds |-> "none"]
    /\ temp_audio_file = [j \in JobIds |-> 0]
    /\ fs = {}
    /\ video = [j \in JobIds |-> "none"]
    /\ result = [j \in JobIds |-> IF j = 1 THEN segs ELSE <<>>]
    /\ srt_content = [j \in JobIds |-> IF j = 1 THEN srt ELSE <<>>]
    /\ enh_result = [j \in JobIds |-> IF j = 1 THEN res ELSE <<>>]
    /\ outcome = [j \in JobIds |-> [status |-> "running", exc |-> "none"]]
    /\ trace = [j \in JobIds |-> <<>>]
    /\ ui = [j \in JobIds |-> NoUi]
    /\ WebInit

BaseRecord(call, srt) ==
    [transcription |-> srt, video_path |-> call.video,
     model_used |-> call.model_name, language |-> call.language,
     phi3_enabled |-> call.enable_phi3]

\* The formatting loop on any segment sequence, generate_metadata on any
\* behaviour of the language model, display_analysis_results on any record.
InitPure ==
    \/ \E s \in FormatInputs :
          PureInit([EnhancedCall EXCEPT !.op = "tv", !.enable_phi3 = FALSE],
                   "format", s, <<>>, <<>>)
    \/ \E lm \in LMBehaviours, t \in Transcriptions :
          PureInit([EnhancedCall EXCEPT !.lm = lm], "generate_metadata",
                   <<>>, t, BaseRecord(EnhancedCall, t))
    \/ \E r \in DisplayInputs :
          PureInit([EnhancedCall EXCEPT !.fe = "cli"], "display", <<>>, <<>>, r)

NextPure ==
    \E j \in JobIds : Format(j) \/ GenerateMetadata(j) \/ DisplayAnalysisResults(j)

SpecPure == InitPure /\ [][NextPure]_vars

\* ------------------------------------------------------------------ claims

Done(j) == pc[j] = "done"

Returned(j) == Done(j) /\ outcome[j].status = "returned"

Raised(j) == Done(j) /\ outcome[j].status = "raised"

\* transcribe_video has returned normally: as the whole job, or as the
\* base call of transcribe_video_enhanced.
TvReturned(j) ==
    \/ inp[j].op = "tv" /\ Returned(j)
    \/ inp[j].op = "enh" /\ pc[j] = "enh_result"

Positions(j, op) == {i \in DOMAIN trace[j] : trace[j][i].op = op}

Count(j, op) == Cardinality(Positions(j, op))

IsCallback(e) == e.op = "callback"

IsBaseCallback(e) == e.op = "callback" /\ e.fn = "transcribe_video"

IsAnalysisCallback(e) == e.op = "callback" /\ e.fn = "transcribe_video_enhanced"

PctOf(events) == [i \in 1..Len(events) |-> events[i].pct]

\* The percentages passed to the callback, in order.
CbSeq(j) == PctOf(SelectSeq(trace[j], IsCallback))

BaseCbSeq(j) == PctOf(SelectSeq(trace[j], IsBaseCallback))

AnalysisCbSeq(j) == PctOf(SelectSeq(trace[j], IsAnalysisCallback))

CallbackRaised(j) ==
    \E i \in DOMAIN trace[j] : IsCallback(trace[j][i]) /\ trace[j][i].res # "ok"

NonDecreasing(s) == \A i \in 1..(Len(s) - 1) : s[i] <= s[i + 1]

IsPrefix(s, t) == Len(s) <= Len(t) /\ SubSeq(t, 1, Len(s)) = s

\* The temporary files job j created, and how often it removed file f.
Created(j) ==
    {trace[j][i].file : i \in {k \in Positions(j, "mktemp") : trace[j][k].res = "ok"}}

Removals(j, f) ==
    Cardinality({i \in Positions(j, "unlink") :
                    trace[j][i].res = "ok" /\ trace[j][i].file = f})

\* C1: on every exit path of transcribe_video the temporary audio file the
\* run created is gone when the call has ended and was removed exactly
\* once; at no time has a file been removed twice or a file the run did not
\* create been removed.
C1_TempFileRemovedExactlyOnce ==
    \A j \in JobIds :
        /\ \A f \in TempNames : Removals(j, f) <= (IF f \in Created(j) THEN 1 ELSE 0)
        /\ Cardinality(Created(j)) <= 1
        /\ Done(j) => \A f \in Created(j) : Removals(j, f) = 1 /\ f \notin fs

\* A run that created its temporary file and ended by an exception the
\* progress callback raised.
C1_Witness ==
    /\ Raised(1)
    /\ Created(1) # {}
    /\ CallbackRaised(1)
    /\ outcome[1].exc = "BaseException"

\* C2: with a missing input path the call raises FileNotFoundError and
\* nothing else has happened: no external call (model load, container
\* open, callback), no temporary file, no container.
C2_NotFoundFirst ==
    \A j \in JobIds :
        inp[j].op # "off" /\ inp[j].video = "missing" =>
            /\ trace[j] = <<>>
            /\ temp_audio_file[j] = 0
            /\ fs = {}
            /\ video[j] = "none"
            /\ pc[j] \in {"enh_entry", "check_path", "tv_exit", "done"}
            /\ Done(j) => outcome[j] = [status |-> "raised", exc |-> "FileNotFoundError"]

\* The call on a missing path, with a callback supplied, has ended.
C2_Witness ==
    Done(1) /\ inp[1].video = "missing" /\ inp[1].cb /\ inp[1].model_name = "base"

\* C3: a container without audio stream, once opened, makes the call raise
\* ValueError; no temporary file is ever created and the transcribe call is
\* never made.
C3_NoAudioValidationFailed ==
    \A j \in JobIds :
        inp[j].video = "noaudio" =>
            /\ temp_audio_file[j] = 0
            /\ fs = {}
            /\ Count(j, "mktemp") = 0
            /\ Count(j, "transcribe") = 0
            /\ Done(j) /\ video[j] # "none" =>
                  /\ outcome[j] = [status |-> "raised", exc |-> "ValueError"]
                  /\ video[j] = "closed"
                  /\ trace[j][Len(trace[j])].op = "close_video"
                  /\ trace[j][Len(trace[j]) - 1] = Ev("open_video", "ok")

\* The call on a container without audio has opened it and ended.
C3_Witness ==
    Done(1) /\ inp[1].video = "noaudio" /\ video[1] = "closed"

\* An engine step (model load, container open, temporary file, export,
\* transcription) raised an Exception.
EngineSteps == {"load_model", "open_video", "mktemp", "export", "transcribe"}

EngineRaised(j) ==
    \E i \in DOMAIN trace[j] :
        /\ trace[j][i].op \in EngineSteps
        /\ trace[j][i].res \in {"FileNotFoundError", "ValueError", "Exception"}

\* C4 (as claimed): an exception of an engine step reaches the caller as
\* the wrapper RuntimeError; ValueError reaches the caller only for a
\* container without audio and FileNotFoundError only for a missing path.
C4_EngineFailureIsUnexpected ==
    \A j \in JobIds :
        Raised(j) /\ ~inp[j].cb =>
            /\ EngineRaised(j) => outcome[j].exc = "RuntimeError"
            /\ outcome[j].exc = "ValueError" => inp[j].video = "noaudio"
            /\ outcome[j].exc = "FileNotFoundError" => inp[j].video = "missing"

Pos(j, op) == CHOOSE i \in DOMAIN trace[j] : trace[j][i].op = op

PosCb(j, pct) ==
    CHOOSE i \in DOMAIN trace[j] :
        IsBaseCallback(trace[j][i]) /\ trace[j][i].pct = pct

\* C5: a successful run of transcribe_video with a callback invokes it
\* exactly seven times, with 5, 10, 20, 30, 40, 90, 100 in this order: 5
\* before and 10 after the model load, 20 before and 30 after the export,
\* 40 before and 90 after the transcribe call, 100 after formatting.
C5_SevenMilestones ==
    \A j \in JobIds :
        TvReturned(j) /\ inp[j].cb =>
            /\ CbSeq(j) = <<5, 10, 20, 30, 40, 90, 100>>
            /\ PosCb(j, 5) < Pos(j, "load_model")
            /\ Pos(j, "load_model") < PosCb(j, 10)
            /\ PosCb(j, 10) < PosCb(j, 20)
            /\ PosCb(j, 20) < Pos(j, "export")
            /\ Pos(j, "export") < PosCb(j, 30)
            /\ PosCb(j, 30) < PosCb(j, 40)
            /\ PosCb(j, 40) < Pos(j, "transcribe")
            /\ Pos(j, "transcribe") < PosCb(j, 90)
            /\ PosCb(j, 90) < Pos(j, "format")
            /\ Pos(j, "format") < PosCb(j, 100)

\* A successful run of transcribe_video with a callback and a non-empty
\* transcript.
C5_Witness ==
    /\ inp[1].op = "tv" /\ Returned(1) /\ inp[1].cb
    /\ srt_content[1] # <<>>

\* C6 (as claimed): in a successful run of either core operation the
\* percentages are non-decreasing over the whole run and the last is 100.
C6_NonDecreasingWholeRun ==
    \A j \in JobIds :
        Returned(j) /\ inp[j].cb /\ ~CallbackRaised(j) =>
            /\ NonDecreasing(CbSeq(j))
            /\ CbSeq(j)[Len(CbSeq(j))] = 100

AnalysisCompleted(j) ==
    \E i \in Positions(j, "generate_metadata") : trace[j][i].res = "ok"

\* C6 (amended): in a successful run with a callback, the percentages of
\* transcribe_video are non-decreasing and end with 100, and they are the
\* whole sequence unless analysis is enabled; with analysis enabled a second
\* non-decreasing sequence follows, a prefix of 70, 80, 100 that starts
\* below the 100 before it, and the last percentage is 100 exactly when
\* generate_metadata returned.
C6_NonDecreasingPerPhase ==
    \A j \in JobIds :
        Returned(j) /\ inp[j].cb =>
            /\ NonDecreasing(BaseCbSeq(j))
            /\ BaseCbSeq(j)[Len(BaseCbSeq(j))] = 100
            /\ CbSeq(j) = BaseCbSeq(j) \o AnalysisCbSeq(j)
            /\ ~inp[j].enable_phi3 => AnalysisCbSeq(j) = <<>>
            /\ inp[j].enable_phi3 =>
                  /\ AnalysisCbSeq(j) # <<>>
                  /\ IsPrefix(AnalysisCbSeq(j), <<70, 80, 100>>)
                  /\ ~NonDecreasing(CbSeq(j))
                  /\ (CbSeq(j)[Len(CbSeq(j))] = 100) <=> AnalysisCompleted(j)

\* A successful run with analysis enabled whose language model could not
\* be constructed: the last percentage reported is 70.
C6_Witness ==
    /\ Returned(1) /\ inp[1].cb /\ inp[1].enable_phi3 /\ ~CallbackRaised(1)
    /\ CbSeq(1) = <<5, 10, 20, 30, 40, 90, 100, 70>>

\* C7 (as claimed): a callback that raises at any milestone of either core
\* operation makes the call end with an exception, and no pipeline step
\* runs after the raising invocation (only the release of the container
\* and the removal of the temporary file).
C7_CallbackRaisePropagates ==
    \A j \in JobIds :
        Done(j) /\ CallbackRaised(j) =>
            /\ outcome[j].status = "raised"
            /\ \A i \in DOMAIN trace[j] :
                  IsCallback(trace[j][i]) /\ trace[j][i].res # "ok" =>
                     \A k \in (i + 1)..Len(trace[j]) :
                        trace[j][k].op \in {"close_video", "unlink"}

\* The base call of transcribe_video_enhanced returned: the result dict of
\* line 56 exists.
BaseSucceeded(j) == "transcription" \in DOMAIN enh_result[j]

\* The calls transcribe_video_enhanced makes after the base call.
IsAnalysisEvent(e) == e.fn = "transcribe_video_enhanced"

AnalysisShape(j) ==
    LET a == SelectSeq(trace[j], IsAnalysisEvent)
    IN  [i \in 1..Len(a) |-> <<a[i].op, a[i].pct>>]

FullAnalysisShape ==
    << <<"callback", 70>>, <<"Phi3Brain", 0>>, <<"callback", 80>>,
       <<"generate_metadata", 0>>, <<"callback", 100>> >>

\* The callback at 70, Phi3Brain(), the callback at 80 and
\* generate_metadata were all called and returned.
FirstFourReturned(j) ==
    LET a == SelectSeq(trace[j], IsAnalysisEvent)
    IN  Len(a) >= 4 /\ \A i \in 1..4 : a[i].res = "ok"

\* C8 (as claimed): with analysis enabled, a callback supplied and the base
\* transcription successful, the call invokes the callback with 70, 80 and
\* 100 after the base run's 100.
C8_AnalysisMilestonesAlways ==
    \A j \in JobIds :
        Returned(j) /\ inp[j].op = "enh" /\ inp[j].enable_phi3 /\ inp[j].cb
          /\ BaseSucceeded(j) /\ ~CallbackRaised(j) =>
            AnalysisCbSeq(j) = <<70, 80, 100>>

\* C8 (amended): with analysis enabled, a callback supplied and the base
\* transcription successful, the analysis phase makes its calls in the order
\* 70, Phi3Brain(), 80, generate_metadata, 100, all after the base run's
\* 100, and stops at the first of them that raises: all of 70, 80, 100 are
\* reported exactly when none raises, and 100 only after generate_metadata
\* returned; with analysis disabled, or the base call failed, no analysis
\* call is made.
C8_AnalysisMilestones ==
    \A j \in JobIds :
        /\ IsPrefix(AnalysisShape(j),
                    IF inp[j].cb THEN FullAnalysisShape
                    ELSE << <<"Phi3Brain", 0>>, <<"generate_metadata", 0>> >>)
        /\ \A i \in DOMAIN trace[j] :
              IsAnalysisEvent(trace[j][i]) =>
                 /\ inp[j].op = "enh" /\ inp[j].enable_phi3
                 /\ inp[j].cb =>
                       \E k \in 1..(i - 1) :
                          IsBaseCallback(trace[j][k]) /\ trace[j][k].pct = 100
                 /\ \A k \in 1..(i - 1) : trace[j][k].res = "ok"
        /\ Done(j) /\ inp[j].op = "enh" /\ inp[j].enable_phi3 /\ inp[j].cb
              /\ BaseSucceeded(j) =>
                 /\ AnalysisShape(j) # <<>>
                 /\ (AnalysisCbSeq(j) = <<70, 80, 100>>) <=> FirstFourReturned(j)

\* Analysis enabled and the language model could not be constructed: the
\* call returned after reporting 70 only.
C8_Witness ==
    /\ Returned(1) /\ inp[1].enable_phi3 /\ inp[1].cb /\ ~CallbackRaised(1)
    /\ AnalysisCbSeq(1) = <<70>>
    /\ "phi3_analysis" \in DOMAIN enh_result[1]

IsNotCallback(e) == e.op # "callback"

\* The calls of job j other than the callback's, each with the file it
\* names told apart only as the job's own temporary file (1) or not (2).
EngineCalls(j) ==
    LET c == SelectSeq(trace[j], IsNotCallback)
    IN  [i \in 1..Len(c) |->
           [c[i] EXCEPT !.file = IF c[i].file = 0 THEN 0
                                 ELSE IF c[i].file = temp_audio_file[j] THEN 1 ELSE 2]]

\* What the engine answered to job j's calls, in order.
EngineAnswers(j) ==
    LET c == SelectSeq(trace[j], IsNotCallback)
    IN  [i \in 1..Len(c) |-> <<c[i].res, c[i].segs>>]

SameEngineBehaviour(a, b) ==
    \/ IsPrefix(EngineAnswers(a), EngineAnswers(b))
    \/ IsPrefix(EngineAnswers(b), EngineAnswers(a))

\* C9: two finished runs of transcribe_video on the same arguments, job 1
\* without a callback and job 2 with a callback that always returned, to
\* which the engine answered alike, made the same engine calls in the same
\* order, created and removed their temporary files alike, and ended alike:
\* the same subtitle text returned or the same kind of exception raised.
C9_CallbackAbsentChangesNothing ==
    ( /\ Done(1) /\ Done(2)
      /\ ~CallbackRaised(2)
      /\ SameEngineBehaviour(1, 2) )
    => /\ EngineCalls(1) = EngineCalls(2)
       /\ CbSeq(1) = <<>>
       /\ outcome[1] = outcome[2]
       /\ srt_content[1] = srt_content[2]
       /\ fs = {}

\* Both runs returned the same non-empty subtitle text, the second after
\* seven callback invocations.
C9_Witness ==
    /\ Returned(1) /\ Returned(2)
    /\ SameEngineBehaviour(1, 2)
    /\ srt_content[1] # <<>>
    /\ Len(CbSeq(2)) = 7
    /\ inp[1].language = Some(<<"p", "t">>)

\* Case folding by upper-casing, on the characters of the hints.
UpperChar(c) ==
    CASE c = "a" -> "A"
      [] c = "u" -> "U"
      [] c = "t" -> "T"
      [] c = "o" -> "O"
      [] OTHER -> c

IsAutoSentinel(l) ==
    /\ l.some
    /\ [i \in 1..Len(l.val) |-> UpperChar(l.val[i])] = <<"A", "U", "T", "O">>

HintAbsent(l) == ~l.some \/ l.val = <<>>

\* C10: the transcribe call carries no language argument exactly when the
\* hint is absent (None or empty) or is 'auto' in any letter case; any
\* other hint is passed unchanged; a successful run makes exactly one
\* transcribe call.
C10_LanguageBranching ==
    \A j \in JobIds :
        /\ \A i \in Positions(j, "transcribe") :
              /\ ~trace[j][i].withLang <=>
                    (HintAbsent(inp[j].language) \/ IsAutoSentinel(inp[j].language))
              /\ trace[j][i].withLang => trace[j][i].lang = inp[j].language.val
              /\ ~trace[j][i].withLang => trace[j][i].lang = <<>>
        /\ Count(j, "transcribe") <= 1
        /\ TvReturned(j) => Count(j, "transcribe") = 1

\* A successful run whose hint is the sentinel in upper case: the call was
\* made without a language argument.
C10_Witness ==
    /\ Returned(1)
    /\ inp[1].language = Some(<<"A", "U", "T", "O">>)
    /\ \E i \in Positions(1, "transcribe") : ~trace[1][i].withLang

\* A line of text and its line end.
Line(s) == s \o <<"\n">>

\* t is text without the whitespace around it: what was cut off on the left
\* and on the right is whitespace, and t neither begins nor ends with any.
IsStripOf(t, text) ==
    \E a \in 0..Len(text) :
        /\ a + Len(t) <= Len(text)
        /\ t = SubSeq(text, a + 1, a + Len(t))
        /\ \A k \in 1..a : IsSpace(text[k])
        /\ \A k \in (a + Len(t) + 1)..Len(text) : IsSpace(text[k])
        /\ t # <<>> => ~IsSpace(t[1]) /\ ~IsSpace(t[Len(t)])

\* The entry the format asks for at 0-based position i: the index i + 1, the
\* two timestamps joined by ' --> ', the text, a blank line.
ExpectedEntry(i, segment) ==
    Line(Decimal(i + 1))
      \o Line(format_timestamp(segment.start) \o <<" ", "-", "-", ">", " ">>
                \o format_timestamp(segment.end))
      \o Line(strip(segment.text))
      \o Line(<<>>)

\* The entries of the first n segments one after the other.
RECURSIVE ExpectedBlob(_, _)
ExpectedBlob(segments, n) ==
    IF n = 0 THEN <<>>
    ELSE ExpectedBlob(segments, n - 1) \o ExpectedEntry(n - 1, segments[n])

\* The formatting loop has run on result[j].
Formatted(j) == Count(j, "format") = 1

\* C11: once the formatting loop has run on n segments the subtitle text is
\* exactly the n entries of those segments in the engine's order, nothing
\* before, between or after them: entry i carries the index i + 1, the
\* rendered start and end of segment i joined by ' --> ', the text of
\* segment i without the whitespace around it and a blank line; no segments
\* give the empty text.
C11_EntriesInEngineOrder ==
    \A j \in JobIds :
        Formatted(j) =>
            /\ srt_content[j] = ExpectedBlob(result[j], Len(result[j]))
            /\ \A p \in DOMAIN result[j] :
                   IsStripOf(strip(result[j][p].text), result[j][p].text)
            /\ result[j] = <<>> => srt_content[j] = <<>>

\* Two segments with whitespace around their texts have been formatted.
C11_Witness ==
    \E j \in JobIds :
        /\ Formatted(j)
        /\ Len(result[j]) = 2
        /\ result[j][1] # result[j][2]
        /\ \A p \in 1..2 : strip(result[j][p].text) # result[j][p].text
        /\ srt_content[j] # <<>>

\* round(num / den) as Python rounds: to the nearest integer, a tie to the
\* even one.
RoundHalfEven(num, den) ==
    LET q == num \div den
        r == num % den
    IN  IF 2 * r < den THEN q
        ELSE IF 2 * r > den THEN q + 1
        ELSE IF q % 2 = 0 THEN q ELSE q + 1

\* The rendering with the milliseconds round(fractional_seconds * 1000):
\* hours = seconds // 3600, minutes = remainder // 60, whole seconds from
\* what remains.
RoundedTimestamp(seconds) ==
    LET hours      == seconds \div (3600 * TicksPerSecond)
        remainder1 == seconds % (3600 * TicksPerSecond)
        minutes    == remainder1 \div (60 * TicksPerSecond)
        remainder2 == remainder1 % (60 * TicksPerSecond)
        secs       == remainder2 \div TicksPerSecond
        frac       == remainder2 % TicksPerSecond
        millis     == RoundHalfEven(frac * MillisPerSecond, TicksPerSecond)
    IN  ZeroPad(hours, 2) \o <<":">> \o ZeroPad(minutes, 2) \o <<":">>
          \o ZeroPad(secs, 2) \o <<",">> \o ZeroPad(millis, 3)

\* C12: format_timestamp renders the milliseconds as the fractional part of
\* the seconds value times 1000 rounded to the nearest integer, with hours =
\* seconds // 3600, minutes = remainder // 60 and the whole seconds of what
\* remains: every timestamp of a formatted segment is that rendering, and
\* 3725.4 gives 01:02:05,400 and 0.0 gives 00:00:00,000.
C12_MillisecondsRounded ==
    \A j \in JobIds :
        Formatted(j) =>
            /\ \A p \in DOMAIN result[j] :
                 /\ format_timestamp(result[j][p].start) = RoundedTimestamp(result[j][p].start)
                 /\ format_timestamp(result[j][p].end) = RoundedTimestamp(result[j][p].end)
            /\ format_timestamp(3725 * TicksPerSecond + 4 * (TicksPerSecond \div 10))
                 = <<"0", "1", ":", "0", "2", ":", "0", "5", ",", "4", "0", "0">>
            /\ format_timestamp(0)
                 = <<"0", "0", ":", "0", "0", ":", "0", "0", ",", "0", "0", "0">>

\* A call of the analysis phase (a milestone, Phi3Brain(), generate_metadata)
\* raised.
AnalysisFailed(j) ==
    \E i \in DOMAIN trace[j] : IsAnalysisEvent(trace[j][i]) /\ trace[j][i].res # "ok"

\* C13: every record transcribe_video_enhanced returns holds the subtitle
\* text of the base call and the path, model identifier, language hint and
\* analysis flag as they were passed; it has the analysis field exactly when
\* analysis was enabled, and when a call of the analysis phase raised that
\* field is a record with the one field error.
C13_ResultRecord ==
    \A j \in JobIds :
        Returned(j) /\ inp[j].op = "enh" =>
            /\ enh_result[j].transcription = srt_content[j]
            /\ enh_result[j].video_path = inp[j].video
            /\ enh_result[j].model_used = inp[j].model_name
            /\ enh_result[j].language = inp[j].language
            /\ enh_result[j].phi3_enabled = inp[j].enable_phi3
            /\ DOMAIN enh_result[j] \subseteq
                 {"transcription", "video_path", "model_used", "language",
                  "phi3_enabled", "phi3_analysis"}
            /\ ("phi3_analysis" \in DOMAIN enh_result[j]) <=> inp[j].enable_phi3
            /\ AnalysisFailed(j) => DOMAIN enh_result[j].phi3_analysis = {"error"}

\* An enhanced call returned its record after Phi3Brain() raised.
C13_Witness ==
    \E j \in JobIds :
        /\ Returned(j) /\ inp[j].op = "enh" /\ inp[j].enable_phi3
        /\ inp[j].language = Some(<<"e", "n">>)
        /\ \E i \in Positions(j, "Phi3Brain") : trace[j][i].res = "Exception"
        /\ DOMAIN enh_result[j].phi3_analysis = {"error"}
        /\ enh_result[j].transcription # <<>>

\* A call of the analysis phase was ended by a BaseException that is no
\* Exception: the interpreter is shutting down or the user interrupted it.
Interrupted(j) ==
    \E i \in DOMAIN trace[j] :
        IsAnalysisEvent(trace[j][i]) /\ trace[j][i].res = "BaseException"

\* C14: whenever the base call of transcribe_video_enhanced succeeded, the
\* enhanced call returns a record whose subtitle text is what the base call
\* returned, whether Phi3Brain(), generate_metadata or an analysis milestone
\* raised an Exception or not; whenever the base call failed, its exception
\* leaves the enhanced call unchanged and no call of the analysis phase was
\* ever made.
C14_AnalysisNeverFailsTranscription ==
    \A j \in JobIds :
        inp[j].op = "enh" =>
            /\ Done(j) /\ BaseSucceeded(j) /\ ~Interrupted(j) =>
                 /\ Returned(j)
                 /\ enh_result[j].transcription = srt_content[j]
            /\ ~BaseSucceeded(j) =>
                 /\ SelectSeq(trace[j], IsAnalysisEvent) = <<>>
                 /\ Done(j) => Raised(j) /\ outcome[j].exc = exc[j]
                                /\ exc[j] # "none"

\* The base call succeeded, Phi3Brain() raised a ValueError and the enhanced
\* call returned the subtitle text all the same.
C14_Witness ==
    \E j \in JobIds :
        /\ Returned(j) /\ inp[j].op = "enh" /\ inp[j].cb
        /\ \E i \in Positions(j, "Phi3Brain") : trace[j][i].res = "ValueError"
        /\ enh_result[j].transcription = srt_content[j]
        /\ srt_content[j] # <<>>

\* The key of the record each of the five prompts fills.
KeyOf(i) ==
    CASE i = 1 -> "summary"
      [] i = 2 -> "key_topics"
      [] i = 3 -> "sentiment_analysis"
      [] i = 4 -> "quality_assessment"
      [] i = 5 -> "suggested_questions"

\* C15: whatever the five analysis calls of generate_metadata do short of
\* an interrupt, generate_metadata returns a record with all seven keys; a
\* call whose model request failed with an Exception fills its own key only,
\* and every other key has the value it has when that call does not fail.
C15_FailingCallKeepsSiblings ==
    \A j \in JobIds :
        Count(j, "generate_metadata") = 1
          /\ (\A i \in AnalysisCalls : inp[j].lm[i] # "BaseException") =>
            /\ \A p \in Positions(j, "generate_metadata") : trace[j][p].res = "ok"
            /\ pc[j] = "cb100a" =>
                 LET rec == enh_result[j].phi3_analysis
                 IN  /\ DOMAIN rec = AnalysisKeys
                     /\ ~("error" \in DOMAIN rec)
                     /\ \A i \in AnalysisCalls :
                          inp[j].lm[i] = "Exception" =>
                            \A key \in AnalysisKeys \ {KeyOf(i)} :
                               rec[key] = Metadata(srt_content[j],
                                             [inp[j].lm EXCEPT ![i] = "plain"])[key]

\* generate_metadata has returned its record although the model request of
\* the sentiment call, and of that call only, failed.
C15_Witness ==
    \E j \in JobIds :
        /\ pc[j] = "cb100a"
        /\ Count(j, "generate_metadata") = 1
        /\ inp[j].lm[3] = "Exception"
        /\ \A i \in AnalysisCalls \ {3} : inp[j].lm[i] = "json"
        /\ DOMAIN enh_result[j].phi3_analysis = AnalysisKeys
        /\ enh_result[j].phi3_analysis.word_count > 0

\* The three failures of the core a front-end has to tell apart.
CoreFailureKinds == {"FileNotFoundError", "ValueError", "RuntimeError"}

\* C16: each front-end reports the three failure kinds of the core in three
\* different message forms chosen by the kind: the form in which a failed
\* job was reported is not a form the same front-end uses for either of the
\* other two kinds.
C16_DistinctMessagePerKind ==
    \A j \in JobIds :
        pc[j] = "fe_done" /\ ui[j].arg \in CoreFailureKinds =>
            \A k \in CoreFailureKinds \ {ui[j].arg} :
                FeErrorForm(inp[j].fe, k) # ui[j].form

\* Job j has a temporary file of its own that it has not yet tried to remove.
Holds(j) ==
    /\ temp_audio_file[j] # 0
    /\ Count(j, "unlink") = 0
    /\ pc[j] # "done"

\* The events of job j that name a file.
FileEvents(j) ==
    {i \in DOMAIN trace[j] : trace[j][i].op \in {"mktemp", "export", "transcribe", "unlink"}
                               /\ trace[j][i].res = "ok"}

\* C17: of two transcribe_video jobs running in one process, in every
\* interleaving, the temporary files the two hold at the same time are
\* different; each job exports to, transcribes and removes only the file it
\* created itself, every removal it attempts finds the file, and a file a
\* job still holds (it is exporting, transcribing or about to clean up)
\* exists.
C17_OwnTempFileOnly ==
    /\ \A j1, j2 \in JobIds :
          j1 # j2 /\ Holds(j1) /\ Holds(j2) =>
             temp_audio_file[j1] # temp_audio_file[j2]
    /\ \A j \in JobIds :
          /\ \A i \in FileEvents(j) :
                /\ trace[j][i].file \in Created(j)
                /\ trace[j][i].file = temp_audio_file[j]
          /\ \A i \in Positions(j, "unlink") : trace[j][i].res = "ok"
          /\ Holds(j) => temp_audio_file[j] \in fs

\* Both jobs hold a file at the same time: one is transcribing its file
\* while the other is exporting to its own.
C17_Witness ==
    /\ pc[1] = "transcribe" /\ pc[2] = "export"
    /\ Holds(1) /\ Holds(2)
    /\ temp_audio_file[1] # temp_audio_file[2]
    /\ {temp_audio_file[1], temp_audio_file[2]} \subseteq fs

\* The key of the analysis record each printed item belongs to.
SectionKey(tag) ==
    CASE tag = "summary" -> "summary"
      [] tag = "key_topics" -> "key_topics"
      [] tag \in {"quality_score", "confidence", "quality_end"} -> "quality_assessment"
      [] tag \in {"sentiment", "tone", "sentiment_end"} -> "sentiment_analysis"
      [] tag = "suggested_questions" -> "suggested_questions"
      [] tag \in {"statistics", "words", "statistics_end"} -> "word_count"
      [] tag = "duration" -> "estimated_duration_minutes"

Printed(j) == {ui[j].out[i] : i \in DOMAIN ui[j].out}

\* display_analysis_results has run on enh_result[j].
Displayed(j) == pc[j] = "cli_completed"

\* C18: display_analysis_results, given a result whose phi3_analysis has no
\* error key, prints the header first and the summary text if the record has
\* one, and prints a section only if the key of that section is in the
\* record, never the 'analysis unavailable' notice; given a result without
\* phi3_analysis, or one whose phi3_analysis has an error key, it prints the
\* notice and nothing else.
C18_DisplaySections ==
    \A j \in JobIds :
        Displayed(j) =>
            IF Has(enh_result[j], "phi3_analysis")
                 /\ ~Has(enh_result[j].phi3_analysis, "error")
              THEN LET analysis == enh_result[j].phi3_analysis
                   IN  /\ SubSeq(ui[j].out, 1, 2) = <<Item("header", ""), Item("rule", "")>>
                       /\ Has(analysis, "summary") =>
                             Item("summary", analysis.summary) \in Printed(j)
                       /\ \A i \in 3..Len(ui[j].out) :
                             /\ ui[j].out[i].tag \notin {"unavailable", "header", "rule"}
                             /\ Has(analysis, SectionKey(ui[j].out[i].tag))
              ELSE ui[j].out = <<Item("unavailable", "")>>

\* A partial record, with a summary and the word count and nothing else, has
\* been displayed.
C18_Witness ==
    \E j \in JobIds :
        /\ Displayed(j)
        /\ Has(enh_result[j], "phi3_analysis")
        /\ DOMAIN enh_result[j].phi3_analysis = {"summary", "word_count"}
        /\ Item("summary", "plain") \in Printed(j)
        /\ Item("statistics", "") \in Printed(j)
        /\ Item("key_topics", "") \notin Printed(j)

\* The steps of a job, numbered in the order of the pipeline; a milestone
\* has the number of the step it follows, and everything that ends the call
\* comes last.
StepRank(l) ==
    CASE l \in {"off", "fe_entry", "enh_entry", "check_path", "cb5"} -> 0
      [] l \in {"load_model", "cb10"}   -> 1
      [] l = "open_video"               -> 2
      [] l = "audio_check"              -> 3
      [] l \in {"mktemp", "cb20"}       -> 4
      [] l \in {"export", "cb30"}       -> 5
      [] l \in {"close_video", "cb40"}  -> 6
      [] l \in {"transcribe", "cb90"}   -> 7
      [] l \in {"format", "cb100"}      -> 8
      [] OTHER                          -> 9

Steps ==
    {"load_model", "open_video", "audio_check", "mktemp", "export",
     "close_video", "transcribe", "format"}

\* The steps that leave an event in the trace (the audio-stream check makes
\* no external call).
IsStepEvent(e) == e.op \in Steps

StepEvents(j) == SelectSeq(trace[j], IsStepEvent)

\* C19, at every moment: the steps a job has taken so far were taken in the
\* order model load, container open, temporary file, export, release,
\* transcribe, formatting, each at most once; a step other than the release
\* was taken only after every step before it had completed, the temporary
\* file only for a container with an audio stream, the release only after
\* the container was opened, and the transcribe call only after the export
\* finished and the container was released.
C19_OrderSoFar ==
    \A j \in JobIds :
        LET s == StepEvents(j)
        IN  /\ \A i, k \in DOMAIN s :
                 i < k => StepRank(s[i].op) < StepRank(s[k].op)
            /\ \A k \in DOMAIN s :
                 IF s[k].op = "close_video"
                   THEN \E i \in 1..(k - 1) : s[i].op = "open_video" /\ s[i].res = "ok"
                   ELSE \A i \in 1..(k - 1) : s[i].res = "ok"
            /\ \A k \in DOMAIN s :
                 /\ s[k].op = "mktemp" =>
                      /\ inp[j].video = "ok"
                      /\ \E i \in 1..(k - 1) : s[i].op = "open_video"
                 /\ s[k].op = "transcribe" =>
                      /\ \E i \in 1..(k - 1) : s[i].op = "export" /\ s[i].res = "ok"
                      /\ \E i \in 1..(k - 1) : s[i].op = "close_video"
                      /\ video[j] = "closed"
                 /\ s[k].op = "format" =>
                      Len(s) = 7 /\ k = 7

\* C19, from one moment to the next: a job only moves forward through the
\* steps, and from one step into another only into a later one.
C19_ForwardOnly ==
    \A j \in JobIds :
        pc'[j] # pc[j] =>
            /\ StepRank(pc'[j]) >= StepRank(pc[j])
            /\ pc[j] \in Steps /\ pc'[j] \in Steps =>
                 StepRank(pc'[j]) > StepRank(pc[j])
            /\ pc'[j] \in Steps /\ pc'[j] # "close_video" => exc'[j] = "none"

\* C19: within one transcribe_video job the steps occur strictly in the
\* order model load, container open, audio-stream check, temporary-file
\* creation, audio export, container release, transcribe call, formatting;
\* each begins only after the one before it has completed, the transcribe
\* call is never made before the export has finished and the container has
\* been released, and no earlier step is entered again after a later one.
C19_StepsInOrder == [](C19_OrderSoFar) /\ [][C19_ForwardOnly]_vars

\* A job went through all of its steps and returned.
C19_Witness ==
    \E j \in JobIds :
        /\ Returned(j) /\ inp[j].op = "tv"
        /\ [i \in 1..Len(StepEvents(j)) |-> StepEvents(j)[i].op] =
             <<"load_model", "open_video", "mktemp", "export", "close_video",
               "transcribe", "format">>
        /\ \A i \in DOMAIN StepEvents(j) : StepEvents(j)[i].res = "ok"

\* The three calls of the engine that the claim counts.
EngineOps == {"load_model", "export", "transcribe"}

\* The positions of the trace at which a call of the engine failed.
EngineFailures(j) ==
    {i \in DOMAIN trace[j] : trace[j][i].op \in EngineOps /\ trace[j][i].res # "ok"}

\* C20: within one job the speech model is loaded at most once, the export
\* attempted at most once and the transcribe call made at most once; after
\* one of them has failed the job makes no further call of the engine, of
\* the video library's open or export, or of the temporary-file creation
\* (only the release of the container and the removal of the temporary file
\* follow), and the job ends with that failure as the handlers pass it on.
C20_NoRetry ==
    \A j \in JobIds :
        /\ \A op \in EngineOps : Count(j, op) <= 1
        /\ \A i \in EngineFailures(j) :
              /\ \A k \in (i + 1)..Len(trace[j]) :
                    trace[j][k].op \in {"close_video", "unlink"}
              /\ ~TvReturned(j)
              /\ srt_content[j] = <<>>
              /\ Done(j) =>
                    /\ Raised(j)
                    /\ outcome[j].exc = Handler(trace[j][i].res)

\* The transcribe call failed with a ValueError and the job ended with it,
\* having called each engine step once.
C20_Witness ==
    \E j \in JobIds :
        /\ Raised(j) /\ outcome[j].exc = "ValueError"
        /\ \E i \in EngineFailures(j) :
              trace[j][i].op = "transcribe" /\ trace[j][i].res = "ValueError"
        /\ \A op \in EngineOps : Count(j, op) = 1
        /\ Count(j, "unlink") = 1

\* The container of job j was opened.
Opened(j) ==
    \E i \in Positions(j, "open_video") : trace[j][i].res = "ok"

\* C21: the container transcribe_video opens is released on every way out
\* of the extraction step: it is released only after it was opened and at
\* most once, it is released by the time the job has left the with block,
\* at the end of every job that opened it it has been released exactly
\* once, and it is never open when the transcribe call starts.
C21_ContainerReleased ==
    \A j \in JobIds :
        /\ Count(j, "close_video") <= 1
        /\ Count(j, "close_video") = 1 => Opened(j)
        /\ video[j] = "closed" <=> Count(j, "close_video") = 1
        /\ video[j] = "open" => InWith(pc[j]) \/ pc[j] = "close_video"
        /\ pc[j] = "transcribe" => video[j] = "closed"
        /\ \A i \in Positions(j, "transcribe") :
              \E k \in 1..(i - 1) : trace[j][k].op = "close_video"
        /\ Done(j) /\ Opened(j) =>
              Count(j, "close_video") = 1 /\ video[j] = "closed"

\* The callback raised at the export-done milestone (30), the container was
\* released and the job has ended.
C21_Witness ==
    \E j \in JobIds :
        /\ Raised(j) /\ Opened(j)
        /\ \E i \in DOMAIN trace[j] :
              /\ IsBaseCallback(trace[j][i]) /\ trace[j][i].pct = 30
              /\ trace[j][i].res = "ValueError"
              /\ i < Len(trace[j]) /\ trace[j][i + 1].op = "close_video"
        /\ video[j] = "closed"

IsDigit(c) == \E d \in DOMAIN Digits : Digits[d] = c

DigitValue(c) == (CHOOSE d \in DOMAIN Digits : Digits[d] = c) - 1

\* The number a string of digits writes.
RECURSIVE Number(_)
Number(s) ==
    IF s = <<>> THEN 0
    ELSE 10 * Number(SubSeq(s, 1, Len(s) - 1)) + DigitValue(s[Len(s)])

\* 100 hours, in whole seconds.
HundredHours == 100 * 3600

\* s has exactly the form HH:MM:SS,mmm with minutes and seconds up to 59.
IsSrtTimestamp(s) ==
    /\ Len(s) = 12
    /\ s[3] = ":" /\ s[6] = ":" /\ s[9] = ","
    /\ \A i \in {1, 2, 4, 5, 7, 8, 10, 11, 12} : IsDigit(s[i])
    /\ Number(SubSeq(s, 4, 5)) <= 59
    /\ Number(SubSeq(s, 7, 8)) <= 59
    /\ Number(SubSeq(s, 10, 12)) <= 999

\* The seconds values of the segments job j formatted.
TimesOf(j) ==
    {result[j][p].start : p \in DOMAIN result[j]}
      \cup {result[j][p].end : p \in DOMAIN result[j]}

\* C22: every seconds value from 0 up to, not including, 100 hours is
\* rendered as a string of exactly the form HH:MM:SS,mmm: two digits of
\* hours, minutes 00..59, seconds 00..59 and three digits of milliseconds
\* 000..999, never 1000.
C22_TimestampForm ==
    \A j \in JobIds :
        Formatted(j) =>
            \A t \in TimesOf(j) :
                0 <= t /\ t \div TicksPerSecond < HundredHours =>
                    /\ IsSrtTimestamp(format_timestamp(t))
                    /\ TimestampFields(t).mmm < MillisPerSecond

\* A segment from 59.9995 seconds to 58 hours 59 minutes 59.9995 seconds has
\* been formatted, as 00:00:59,999 and 58:59:59,999.
C22_Witness ==
    \E j \in JobIds :
        /\ Formatted(j)
        /\ Len(result[j]) = 1
        /\ result[j][1].start = 599995
        /\ result[j][1].end = 2123999995
        /\ format_timestamp(result[j][1].start)
             = <<"0", "0", ":", "0", "0", ":", "5", "9", ",", "9", "9", "9">>
        /\ format_timestamp(result[j][1].end)
             = <<"5", "8", ":", "5", "9", ":", "5", "9", ",", "9", "9", "9">>
        /\ srt_content[j] # <<>>

\* The four numbers of a rendered timestamp; the hours are whatever stands
\* before the first colon.
RenderedFields(s) ==
    LET h == Len(s) - 10
    IN  << Number(SubSeq(s, 1, h)), Number(SubSeq(s, h + 2, h + 3)),
           Number(SubSeq(s, h + 5, h + 6)), Number(SubSeq(s, h + 8, Len(s))) >>

\* a is not after b, comparing field by field from the hours down.
FieldsLeq(a, b) ==
    \/ a = b
    \/ \E i \in 1..4 : a[i] < b[i] /\ \A k \in 1..(i - 1) : a[k] = b[k]

RenderedLeq(t1, t2) ==
    FieldsLeq(RenderedFields(format_timestamp(t1)), RenderedFields(format_timestamp(t2)))

\* The segments obey the data model: no negative start, no end before its
\* start, starts in temporal order.
ObeysDataModel(segments) ==
    /\ \A p \in DOMAIN segments :
          0 <= segments[p].start /\ segments[p].start <= segments[p].end
    /\ \A p, q \in DOMAIN segments :
          p < q => segments[p].start <= segments[q].start

\* C23: for segments that obey the data model the rendered starts do not
\* decrease from one entry to the next and no entry's rendered end is before
\* its rendered start; more generally, of any two of their seconds values
\* the smaller is never rendered after the larger, comparing hours, minutes,
\* seconds and milliseconds in this order.
C23_OrderPreserved ==
    \A j \in JobIds :
        Formatted(j) /\ ObeysDataModel(result[j]) =>
            /\ \A p \in DOMAIN result[j] :
                  RenderedLeq(result[j][p].start, result[j][p].end)
            /\ \A p, q \in DOMAIN result[j] :
                  p < q => RenderedLeq(result[j][p].start, result[j][q].start)
            /\ \A t1, t2 \in TimesOf(j) :
                  t1 <= t2 => RenderedLeq(t1, t2)

\* Two segments in temporal order whose starts, 59.9995 and 3725.4 seconds,
\* differ in minutes and hours have been formatted.
C23_Witness ==
    \E j \in JobIds :
        /\ Formatted(j)
        /\ Len(result[j]) = 2
        /\ ObeysDataModel(result[j])
        /\ result[j][1].start = 599995
        /\ result[j][2].start = 37254000
        /\ RenderedFields(format_timestamp(result[j][2].start)) = <<1, 2, 5, 400>>

\* generate_metadata has returned its record to job j.
Analysed(j) ==
    /\ Count(j, "generate_metadata") = 1
    /\ trace[j][Len(trace[j])].op = "generate_metadata"
    /\ trace[j][Len(trace[j])].res = "ok"
    /\ "phi3_analysis" \in DOMAIN enh_result[j]

\* The answers the sentiment and the quality prompt of job j got.
SentimentResponse(j) == GenerateResponse(inp[j].lm[3])

QualityResponse(j) == GenerateResponse(inp[j].lm[4])

\* Some substring of the answer, from a brace to a brace, is a JSON object.
ContainsObject(response) == response \in {"json", "json_other", "json_twice"}

\* The part of the answer from its first opening brace to its last closing
\* brace is a JSON object.
SpanIsObject(response) == response \in {"json", "json_other"}

IsDefault(record) == "raw_analysis" \in DOMAIN record

\* C25 as stated: the two analyses return a parsed object whenever the answer
\* contains a JSON-shaped substring that parses, and otherwise the default
\* structure with the answer under raw_analysis.
C25_AnyParsingSubstring ==
    \A j \in JobIds :
        Analysed(j) =>
            LET a == enh_result[j]["phi3_analysis"]
            IN  /\ ContainsObject(SentimentResponse(j))
                      <=> ~IsDefault(a.sentiment_analysis)
                /\ ContainsObject(QualityResponse(j))
                      <=> ~IsDefault(a.quality_assessment)

\* C25, amended: the two analyses return the parsed object whenever the part
\* of the answer from its first opening brace to its last closing brace
\* parses, and otherwise (no braces, or that part does not parse) the fixed
\* default structure of the analysis with the answer under raw_analysis;
\* generate_metadata fails only when a call of the language model was
\* interrupted, never because of what an answer contains.
C25_SalvageOrDefault ==
    \A j \in JobIds :
        /\ Analysed(j) =>
              LET a == enh_result[j]["phi3_analysis"]
                  s == SentimentResponse(j)
                  q == QualityResponse(j)
              IN  /\ a.sentiment_analysis =
                        IF SpanIsObject(s)
                          THEN SentimentObject(s)
                          ELSE [sentiment |-> "neutral", tone |-> "unknown",
                                emotional_moments |-> <<>>, confidence |-> "low",
                                raw_analysis |-> s]
                  /\ a.quality_assessment =
                        IF SpanIsObject(q)
                          THEN QualityObject(q)
                          ELSE [quality_score |-> 7,
                                issues |-> <<"Analysis could not be parsed as JSON">>,
                                improvements |-> <<"Manual review recommended">>,
                                confidence_level |-> "medium", raw_analysis |-> q]
                  /\ SpanIsObject(s) <=> ~IsDefault(a.sentiment_analysis)
                  /\ SpanIsObject(q) <=> ~IsDefault(a.quality_assessment)
        /\ \A i \in Positions(j, "generate_metadata") :
              trace[j][i].res # "ok" =>
                  \E c \in AnalysisCalls : inp[j].lm[c] = "BaseException"
        /\ (\A c \in AnalysisCalls : inp[j].lm[c] # "BaseException")
              /\ pc[j] # "generate_metadata" /\ Count(j, "generate_metadata") = 1
              => Analysed(j)

\* The sentiment answer was an object and was returned parsed; the quality
\* answer had braces around something that is no JSON and came back as the
\* default with the answer attached.
C25_Witness ==
    \E j \in JobIds :
        /\ Analysed(j)
        /\ inp[j].lm[3] = "json" /\ inp[j].lm[4] = "broken"
        /\ enh_result[j]["phi3_analysis"].sentiment_analysis.sentiment = "positive"
        /\ enh_result[j]["phi3_analysis"].quality_assessment.raw_analysis = "broken"
        /\ enh_result[j]["phi3_analysis"].quality_assessment.quality_score = 7

\* The call of transcribe_video made by job j, directly or as the base call
\* of the enhanced operation, ended in a failure.
TvFailed(j) ==
    /\ Raised(j)
    /\ \A i \in DOMAIN trace[j] : trace[j][i].fn = "transcribe_video"

\* The step op of job j failed.
StepFailed(j, op) == \E i \in Positions(j, op) : trace[j][i].res # "ok"

SevenMilestones == <<5, 10, 20, 30, 40, 90, 100>>

\* C27: in a run of transcribe_video with a callback that ends in a failure
\* the percentages reported are a prefix of 5, 10, 20, 30, 40, 90, 100 that
\* the failing step determines: nothing for a missing path, 5 for a failed
\* model load (an unrecognized model identifier included), 5, 10 for a
\* container that cannot be opened or has no audio stream, 5, 10, 20 for a
\* failed export, 5, 10, 20, 30, 40 for a failed transcribe call, and up to
\* the percentage of the failing call when the callback itself fails; a run
\* that fails in an engine step never reports 100.
C27_PrefixByFailingStep ==
    \A j \in JobIds :
        TvFailed(j) /\ inp[j].cb =>
            /\ IsPrefix(BaseCbSeq(j), SevenMilestones)
            /\ inp[j].video = "missing" => BaseCbSeq(j) = <<>>
            /\ StepFailed(j, "load_model") => BaseCbSeq(j) = <<5>>
            /\ inp[j].model_name \notin WHISPER_MODELS /\ inp[j].video # "missing"
                  => BaseCbSeq(j) = <<5>>
            /\ inp[j].model_name \notin WHISPER_MODELS /\ Count(j, "load_model") = 1
                  => StepFailed(j, "load_model")
            /\ StepFailed(j, "open_video") => BaseCbSeq(j) = <<5, 10>>
            /\ inp[j].video = "noaudio" /\ Opened(j) => BaseCbSeq(j) = <<5, 10>>
            /\ StepFailed(j, "mktemp") => BaseCbSeq(j) = <<5, 10>>
            /\ StepFailed(j, "export") => BaseCbSeq(j) = <<5, 10, 20>>
            /\ StepFailed(j, "transcribe") => BaseCbSeq(j) = <<5, 10, 20, 30, 40>>
            /\ (\E op \in EngineSteps : StepFailed(j, op)) \/ inp[j].video # "ok"
                  => \A i \in DOMAIN BaseCbSeq(j) : BaseCbSeq(j)[i] # 100
            /\ \A i \in DOMAIN trace[j] :
                  IsBaseCallback(trace[j][i]) /\ trace[j][i].res # "ok" =>
                      /\ BaseCbSeq(j)[Len(BaseCbSeq(j))] = trace[j][i].pct
                      /\ \A op \in EngineSteps : ~StepFailed(j, op)

\* A run with a callback whose transcribe call failed after 5, 10, 20, 30
\* and 40 had been reported.
C27_Witness ==
    \E j \in JobIds :
        /\ TvFailed(j) /\ inp[j].cb
        /\ StepFailed(j, "transcribe")
        /\ outcome[j].exc = "RuntimeError"
        /\ BaseCbSeq(j) = <<5, 10, 20, 30, 40>>


\* C28 (as claimed): with analysis enabled, whenever generate_metadata has
\* returned a record, the phi3_analysis field of the result is that record,
\* at every later point of the call and in the result returned.
C28_AnalysisKept ==
    \A j \in JobIds :
        inp[j].enable_phi3 /\ AnalysisCompleted(j) =>
            /\ "phi3_analysis" \in DOMAIN enh_result[j]
            /\ enh_result[j]["phi3_analysis"] = Metadata(srt_content[j], inp[j].lm)


\* C24 (as claimed): when the auto-detect sentinel is selected in a
\* front-end, the speech-recognition call of the job is made without a
\* language argument: no front-end has put a language code in the place of
\* the sentinel.
C24_AutoOmitsLanguage ==
    \A j \in JobIds :
        inp[j].fe \in FrontEnds /\ inp[j].selected = <<"a", "u", "t", "o">> =>
            \A i \in Positions(j, "transcribe") :
                ~trace[j][i].withLang /\ trace[j][i].lang = <<>>


\* The terminal result statuses.
Terminal(job) ==
    /\ job \in DOMAIN transcription_results
    /\ transcription_results[job].status \in {"completed", "error"}

\* The core call of request j has returned, or raised an Exception.
CoreEnded(j) ==
    /\ job_id[j] # NoJob /\ pc[j] = "done"
    /\ outcome[j].status = "raised" => IsException(outcome[j].exc)

\* C26 (as claimed): every accepted upload whose core call returns or
\* raises eventually has a terminal result status, completed or error,
\* under its job id; completed is recorded only when the .srt file of the
\* job has been written; and a terminal status recorded under a job id
\* never changes.
C26_OneTerminalStatus ==
    /\ \A j \in JobIds : CoreEnded(j) ~> (job_id[j] # NoJob /\ Terminal(job_id[j]))
    /\ [](\A job \in DOMAIN transcription_results :
             transcription_results[job].status = "completed"
                 => job \in results_folder)
    /\ [][\A job \in DOMAIN transcription_results :
             Terminal(job) =>
                 /\ job \in DOMAIN transcription_results'
                 /\ transcription_results'[job].status
                        = transcription_results[job].status]_vars


\* C29 (as claimed): any two accepted uploads have different job ids, two
\* uploads of the same filename included, so that no two workers share a
\* progress entry, a result entry, an uploaded file or a result file, and
\* no worker has deleted the uploaded file of a worker that has yet to open
\* it.
C29_DistinctJobIds ==
    \A j1, j2 \in JobIds :
        j1 # j2 /\ job_id[j1] # NoJob /\ job_id[j2] # NoJob =>
            /\ job_id[j1] # job_id[j2]
            /\ pc[j1] \in {"worker", "check_path"} => job_id[j1] \in upload_folder

\* The core milestones, and the 0 of a job that has reported nothing.
ProcessingPercentages == {0, 5, 10, 20, 30, 40, 90, 100}

\* C30 (as claimed): every /progress response is consistent with the state
\* of its job: with the result status completed the percentage is 100, with
\* error the percentage is 0 and the step is the error message, with
\* processing the percentage is a core milestone or the initial 0.
C30_ConsistentResponse ==
    DOMAIN last_response # {} =>
        LET progress == last_response.progress
            status   == last_response.result.status
        IN  /\ status = "completed" => progress.percentage = 100
            /\ status = "error" =>
                  /\ progress.percentage = 0
                  /\ progress.step = ErrorStep(last_response.result.error)
            /\ status = "processing" =>
                  progress.percentage \in ProcessingPercentages

====
